---- MODULE Spec2Model ----
(***************************************************************************)
(* Model of the quizzer game coordination service.                         *)
(*                                                                         *)
(* Router part: service/game/consumers.py (GameConsumer) on top of the     *)
(* channel layer: one consumer per websocket, a group per game, a queue of *)
(* pending events per channel, and the JSON frames written to each socket. *)
(***************************************************************************)
EXTENDS Naturals, Integers, Sequences, FiniteSets, TLC

\* ------------------------------------------------------------------ bounds
MaxConns   == 3   \* websocket connections (channel names) ever accepted
MaxRelays  == 1   \* frames received from clients (receive_json calls)
MaxGames   == 2   \* games (rooms)
FewConns   == 2   \* connections, in the runs with more inputs per step
MoreRelays == 2   \* frames received, in the runs with fewer connections
ManyFailures == 9 \* failed or lost connections of the client, backoff runs
FewFailures == 2  \* failed or lost connections, in the runs with stop()
OneFailure  == 1  \* failed or lost connections, in the runs with traffic
MaxFrames  == 3   \* frames the client receives
OneFrame   == 1   \* frames received, in the runs with stop()
MaxSends   == 2   \* send_message calls of the application
OneSend    == 1   \* send_message calls, in the runs with stop()
MaxRules   == 2   \* outgoing rules of a bridge configuration
MaxMessages == 1  \* messages a bridge handles
TwoMessages == 2  \* messages, in the runs with overlapping calls
MaxEvents  == 2   \* OSC events a bridge handles
MaxConversions == 2 \* values converted on their own
FewToggles == 2   \* toggle_buzzers messages, in the runs with every message
MaxToggles == 3   \* toggle_buzzers messages the buzzer client handles
MaxLosses  == 1   \* times the buzzer client loses its connection
MaxCalls   == 3   \* calls of record_player_answer and update_question_status
MaxRequests == 2  \* requests to record_answer and toggle_question
OneCall    == 1   \* calls of record_player_answer before the concurrent ones

\* ------------------------------------------------------------- JSON values
None   == "<None>"      \* Python None / JSON null
Absent == "<absent>"    \* key not present in a mapping

Games == 1..MaxGames

\* channel_name the transport assigns to the n-th consumer
ChannelName(n) == "chan" \o ToString(n)
Channels == {ChannelName(n) : n \in 1..MaxConns}

\* query-string values clients connect with (parse_qs drops blank values)
ClientTypes == {"buzzer", "osc"}
ClientIds   == {"b1", "b2"}

\* get_game_room_name
get_game_room_name(game_id) == "game_" \o ToString(game_id)
Rooms == {get_game_room_name(g) : g \in Games}

\* ------------------------------------------------------ JSON value shapes
\* A scalar or container value: j is the JSON kind, v its payload.
JVal(j, v) == [j |-> j, v |-> v]
JAbsent    == JVal("absent", "")
JNull      == JVal("null", "")
JStr(s)    == JVal("string", s)

\* The value under the "recipient" key. For a mapping (j = "object") the
\* three selector keys hold a string or Absent; other says whether some key
\* the router does not know is present as well.
Rcp(j, v, ch, cid, ct, o) ==
    [j |-> j, v |-> v, channel_id |-> ch, client_id |-> cid,
     client_type |-> ct, other |-> o]
RAbsent      == Rcp("absent", "", Absent, Absent, Absent, FALSE)
RNull        == Rcp("null", "", Absent, Absent, Absent, FALSE)
RScalar(j, v) == Rcp(j, v, Absent, Absent, Absent, FALSE)
RDict(ch, cid, ct, o) == Rcp("object", "", ch, cid, ct, o)

\* len(recipient) for a mapping
RLen(r) == (IF r.channel_id # Absent THEN 1 ELSE 0)
         + (IF r.client_id # Absent THEN 1 ELSE 0)
         + (IF r.client_type # Absent THEN 1 ELSE 0)
         + (IF r.other THEN 1 ELSE 0)

\* Python truth value of content.get("recipient") / event.get("recipient")
Truthy(r) ==
    CASE r.j = "absent" -> FALSE
      [] r.j = "null"   -> FALSE
      [] r.j = "string" -> r.v # ""
      [] r.j = "number" -> r.v # "0"
      [] r.j = "list"   -> r.v # "[]"
      [] r.j = "object" -> RLen(r) > 0

\* A frame decoded from a client, or a message built by the server.
\* j is the JSON kind of the whole payload; type, recipient and the status
\* fields are the keys the router reads or writes.
\* data holds the result fields a view broadcasts, as JSON scalars.
Data(player_id, score, question_id, answered, version) ==
    [player_id |-> player_id, score |-> score, question_id |-> question_id,
     answered |-> answered, version |-> version]
NoData == Data(Absent, Absent, Absent, Absent, Absent)

Content(j, type, rcp, ct, cid, connected) ==
    [j |-> j, type |-> type, recipient |-> rcp,
     client_type |-> ct, client_id |-> cid, connected |-> connected,
     data |-> NoData]
Frame(j, type, rcp) == Content(j, type, rcp, Absent, Absent, Absent)

JBool(b) == IF b THEN "true" ELSE "false"

\* ------------------------------------------------------------------ state
VARIABLES
    conn,    \* per channel name: the consumer's fields
    groups,  \* channel layer: room group name -> set of channel names
    queue,   \* channel layer: channel name -> events not yet dispatched
    sock,    \* channel name -> JSON frames written to that websocket
    calls    \* channel name -> the handler calls of that consumer, in order

routerVars == <<conn, groups, queue, sock, calls>>

\* hardware/lib/websocket_client.py (HardwareWebSocketClient): one client
VARIABLES
    running,    \* self.running
    websocket,  \* self.websocket: NoSocket, or the number of the attempt that opened it
    backoff,    \* connect(): the local backoff, in tenths of a second
    pc,         \* where run() / connect() is suspended
    alive,      \* the connection behind the socket of this attempt is open
    raising,    \* the exception on its way out of connect(), or "none"
    trace       \* what the client did and saw, in order

clientVars == <<running, websocket, backoff, pc, alive, raising, trace>>

\* hardware/osc_bridge.py (OSCBridgeClient): one bridge
VARIABLES
    config,       \* self.config
    handled,      \* the messages handle_message was called with, in order
    udp,          \* the destinations the bridge went to send a packet to,
                  \* in order, each with what became of the packet
    net,          \* per "host:port": what creating a client for it or
                  \* sending to it does
    osc_clients,  \* self.osc_clients: key -> the client object cached for it
    clients_got,  \* the returns of _get_osc_client, in order: the key, the
                  \* object returned, and whether the call made the object
    tasks,        \* the handle_message calls under way: message, next rule
    osc_in,       \* the OSC events _handle_osc_message was called with
    ws,           \* the calls of self.send_message made for OSC events
    conversions   \* the calls of _convert_type made on their own, with results

bridgeVars == <<config, handled, udp, net, osc_clients, clients_got,
                tasks, osc_in, ws, conversions>>

\* hardware/buzzers.py: the scanner thread (BuzzerThread) and its client
\* (BuzzerClient). The enable line and its duty cycle are left out.
VARIABLES
    enabled,    \* BuzzerThread.enabled
    selected,   \* BuzzerThread.selected: a channel, or NoChannel for None
    callback,   \* BuzzerThread.callback is set
    scan_pc,    \* where run() is
    chan,       \* run(): the local c
    latched,    \* the channels run() has set selected to, in order
    presses,    \* the arguments the callback was called with, in order
    listen_pc,  \* where run_async() / listen_for_messages() is
    toggles,    \* the toggle_buzzers messages handled
    losses,     \* the times recv or send raised in listen_for_messages
    cleared,    \* the times listen_for_messages set selected to None
    scheduled,  \* the handle_buzzer_press coroutines scheduled on the loop
                \* and not yet run, each with its buzzer_id
    sent,       \* the buzzerId of the buzzer_pressed messages sent, in order
    log_level   \* the level of the root logger

scannerVars == <<enabled, selected, callback, scan_pc, chan, latched, presses,
                 listen_pc, toggles, losses, cleared, scheduled, sent,
                 log_level>>

\* service/game/services.py over the tables of models.py
VARIABLES
    answers,        \* the rows of PlayerAnswer
    answer_pk,      \* the last primary key given to a row of PlayerAnswer
    score_version,  \* Player.score_version, per player
    recorded,       \* the calls of record_player_answer, in order
    returned,       \* what the calls returned, in order
    question_answered,  \* Question.answered, per question
    state_version,      \* Question.state_version, per question
    status_returned,    \* what the calls of update_question_status
                        \* returned, in order
    requests,           \* service/game/views.py: the requests handled, in
                        \* order, each with the status of its response
    txns                \* calls of record_player_answer running at the same
                        \* time: the rows and the player's version
                        \* stored before them, and per call its
                        \* arguments, where it is, the row
                        \* its get found, its uncommitted write, its result

servicesVars == <<answers, answer_pk, score_version, recorded, returned,
                  question_answered, state_version, status_returned,
                  requests, txns>>

vars == <<routerVars, clientVars, bridgeVars, scannerVars, servicesVars>>

\* what the steps of one part leave alone
notRouter == <<clientVars, bridgeVars, scannerVars, servicesVars>>
notClient == <<routerVars, bridgeVars, scannerVars, servicesVars>>
notBridge == <<routerVars, clientVars, scannerVars, servicesVars>>
notScanner == <<routerVars, clientVars, bridgeVars, servicesVars>>
notServices == <<routerVars, clientVars, bridgeVars, scannerVars>>

NewConn == [status |-> "new", room_group_name |-> None,
            client_type |-> None, client_id |-> None]

Opened == {c \in Channels : conn[c].status # "new"}
Live   == {c \in Channels : conn[c].status = "open"}

\* the connections of a room, given the consumers' fields
InRoom(cn, room) ==
    {c \in Channels : cn[c].status = "open" /\ cn[c].room_group_name = room}

\* receive_json calls so far
Relays ==
    LET n(c) == Cardinality({i \in DOMAIN calls[c] : calls[c][i].op = "receive_json"})
        Sum[S \in SUBSET Channels] ==
            IF S = {} THEN 0
            ELSE LET c == CHOOSE x \in S : TRUE IN n(c) + Sum[S \ {c}]
    IN Sum[Channels]

\* Python truth value of a query-string value (None or a non-empty string)
Set(x) == x # None

\* One handler call as recorded in calls: the handler, the frame or message
\* it handled, the query string (connect), and who was in the caller's room
\* and who was connected at all when the handler had updated the consumer.
Call(op, content, query, cn, room) ==
    [op |-> op, content |-> content, query |-> query,
     members |-> InRoom(cn, room), live |-> {c \in Channels : cn[c].status = "open"}]

\* the number of the call a consumer is making: <<channel name, index>>
CallId(c) == [c |-> c, n |-> Len(calls[c]) + 1]

\* ------------------------------------------------------- channel layer
\* an event on the layer, tagged with the call that sent it
Event(id, message, recipient) ==
    [id |-> id, type |-> "game_message", message |-> message,
     recipient |-> recipient]

\* a copy for every consumer that ever joined the room, left or not
group_send_whole_room(q, g, room, ev) ==
    [c \in Channels |-> IF conn[c].room_group_name = room
                        THEN Append(q[c], ev) ELSE q[c]]

\* channel_layer.group_send: one copy onto the queue of every group member
group_send(q, g, room, ev) ==
    [c \in Channels |-> IF c \in g[room] THEN Append(q[c], ev) ELSE q[c]]

\* channel_layer.send: one copy onto the queue of the named channel
layer_send(q, target, ev) ==
    [c \in Channels |-> IF c = target THEN Append(q[c], ev) ELSE q[c]]

\* a connect that does not join the group
group_add_forgotten(g, room, c) == g

group_add(g, room, c)     == [g EXCEPT ![room] = @ \cup {c}]

\* a disconnect that does not leave the group
group_discard_forgotten(g, room, c) == g

group_discard(g, room, c) == [g EXCEPT ![room] = @ \ {c}]

\* ----------------------------------------------------------- GameConsumer
\* broadcast_client_status: the message it puts on the group
StatusMessage(ct, cid, connected) ==
    Content("object", JStr("client_connection_status"), RAbsent,
            ct, cid, JBool(connected))

broadcast_client_status(q, g, me, c, connected) ==
    group_send(q, g, me.room_group_name,
               Event(CallId(c),
                     StatusMessage(me.client_type, me.client_id, connected),
                     RAbsent))

\* no fallback to the channel name
ConnectClientIdAsGiven(c, client_type, client_id) == client_id

\* connect: the client_id the consumer ends up with
ConnectClientId(c, client_type, client_id) ==
    IF Set(client_type) /\ ~Set(client_id) THEN c ELSE client_id

\* the status broadcast for every join
ConnectBroadcastsAlways(me) == TRUE

\* connect: the test that decides whether the status is broadcast
ConnectBroadcasts(me) == Set(me.client_type)

connect(c, game_id, client_type, client_id) ==
    /\ conn[c].status = "new"
    /\ LET room == get_game_room_name(game_id)
           me   == [status |-> "open", room_group_name |-> room,
                    client_type |-> client_type,
                    client_id |-> ConnectClientId(c, client_type, client_id)]
           g1   == group_add(groups, room, c)
       IN /\ conn' = [conn EXCEPT ![c] = me]
          /\ groups' = g1
          /\ queue' = IF ConnectBroadcasts(me)
                      THEN broadcast_client_status(queue, g1, me, c, TRUE)
                      ELSE queue
          /\ calls' = [calls EXCEPT ![c] = Append(@,
                          Call("connect", StatusMessage(me.client_type, me.client_id, TRUE),
                               <<client_type, client_id>>, conn', room))]
          /\ UNCHANGED sock

\* disconnect: the test that decides whether the status is broadcast
DisconnectBroadcasts(me) == Set(me.client_type) /\ Set(me.client_id)

disconnect(c) ==
    /\ conn[c].status = "open"
    /\ LET me == conn[c]
           g1 == group_discard(groups, me.room_group_name, c)
       IN /\ groups' = g1
          /\ conn' = [conn EXCEPT ![c].status = "closed"]
          /\ queue' = IF DisconnectBroadcasts(me)
                      THEN broadcast_client_status(queue, g1, me, c, FALSE)
                      ELSE queue
          /\ calls' = [calls EXCEPT ![c] = Append(@,
                          Call("disconnect", StatusMessage(me.client_type, me.client_id, FALSE),
                               <<None, None>>, conn', me.room_group_name))]
          /\ UNCHANGED sock

\* connect and disconnect as the event loop runs them: each handler gives
\* up control at its awaits, so the group operation and the status broadcast
\* of one consumer are separate steps other consumers' handlers run between.
\* A consumer inside a handler ("joining", "leaving") dispatches nothing else.
connect_join(c, game_id, client_type, client_id) ==
    /\ conn[c].status = "new"
    /\ LET room == get_game_room_name(game_id) IN
         /\ conn' = [conn EXCEPT ![c] =
                        [status |-> "joining", room_group_name |-> room,
                         client_type |-> client_type,
                         client_id |-> ConnectClientId(c, client_type, client_id)]]
         /\ groups' = group_add(groups, room, c)
    /\ UNCHANGED <<queue, sock, calls>>

connect_announce(c) ==
    /\ conn[c].status = "joining"
    /\ LET me == [conn[c] EXCEPT !.status = "open"] IN
         /\ conn' = [conn EXCEPT ![c] = me]
         /\ queue' = IF ConnectBroadcasts(me)
                     THEN broadcast_client_status(queue, groups, me, c, TRUE)
                     ELSE queue
         /\ calls' = [calls EXCEPT ![c] = Append(@,
                         Call("connect", StatusMessage(me.client_type, me.client_id, TRUE),
                              <<me.client_type, me.client_id>>, conn', me.room_group_name))]
    /\ UNCHANGED <<groups, sock>>

disconnect_leave(c) ==
    /\ conn[c].status = "open"
    /\ groups' = group_discard(groups, conn[c].room_group_name, c)
    /\ conn' = [conn EXCEPT ![c].status = "leaving"]
    /\ UNCHANGED <<queue, sock, calls>>

disconnect_announce(c) ==
    /\ conn[c].status = "leaving"
    /\ LET me == conn[c] IN
         /\ conn' = [conn EXCEPT ![c].status = "closed"]
         /\ queue' = IF DisconnectBroadcasts(me)
                     THEN broadcast_client_status(queue, groups, me, c, FALSE)
                     ELSE queue
         /\ calls' = [calls EXCEPT ![c] = Append(@,
                         Call("disconnect", StatusMessage(me.client_type, me.client_id, FALSE),
                              <<None, None>>, conn', me.room_group_name))]
    /\ UNCHANGED <<groups, sock>>

\* the guard without the test for the type key
ValidContentAnyMapping(content) == content.j = "object"

\* receive_json: the first guard (payload shape)
ValidContent(content) == content.j = "object" /\ content.type.j # "absent"

\* the routing without the single-channel case
RouteWithoutUnicast(content) ==
    LET recipient == content.recipient IN
    IF content.j # "object" \/ content.type.j = "absent" THEN "drop"
    ELSE IF ~Truthy(recipient) THEN "broadcast"
    ELSE IF recipient.j # "object" THEN "drop"
    ELSE "filtered"

\* receive_json: where the frame goes
\*   "drop" | "broadcast" | "unicast" | "filtered"
Route(content) ==
    LET recipient == content.recipient IN
    IF ~ValidContent(content) THEN "drop"
    ELSE IF ~Truthy(recipient) THEN "broadcast"
    ELSE IF recipient.j # "object" THEN "drop"
    ELSE IF recipient.channel_id # Absent /\ RLen(recipient) = 1 THEN "unicast"
    ELSE "filtered"

receive_json(c, content) ==
    /\ conn[c].status = "open"
    /\ LET room == conn[c].room_group_name
           id   == CallId(c)
           r    == Route(content)
       IN /\ queue' =
               CASE r = "drop"      -> queue
                 [] r = "broadcast" ->
                      group_send(queue, groups, room, Event(id, content, RAbsent))
                 [] r = "unicast"   ->
                      layer_send(queue, content.recipient.channel_id,
                                 Event(id, content, RAbsent))
                 [] r = "filtered"  ->
                      group_send(queue, groups, room,
                                 Event(id, content, content.recipient))
          /\ UNCHANGED <<conn, groups, sock>>
          /\ calls' = [calls EXCEPT ![c] = Append(@,
                          Call("receive_json", content, <<None, None>>, conn', room))]

\* the filter with any one matching key being enough
AcceptsAnyKey(me, channel_name, recipient) ==
    IF Truthy(recipient)
    THEN \/ (recipient.channel_id # Absent /\ channel_name = recipient.channel_id)
         \/ (recipient.client_id # Absent /\ me.client_id = recipient.client_id)
         \/ (recipient.client_type # Absent /\ me.client_type = recipient.client_type)
    ELSE TRUE

\* game_message: the recipient filter of one consumer
Accepts(me, channel_name, recipient) ==
    IF Truthy(recipient)
    THEN /\ ~(recipient.channel_id # Absent /\ channel_name # recipient.channel_id)
         /\ ~(recipient.client_id # Absent /\ me.client_id # recipient.client_id)
         /\ ~(recipient.client_type # Absent /\ me.client_type # recipient.client_type)
    ELSE TRUE

\* the channel name of the consumer that sent the event
InjectedSenderId(channel_name, ev) == ev.id.c

\* game_message: the channel_id written into the outgoing copy
InjectedChannelId(channel_name, ev) == channel_name

\* game_message: the frame written to the socket
Outgoing(channel_name, ev) ==
    [id |-> ev.id, message |-> ev.message,
     channel_id |-> InjectedChannelId(channel_name, ev)]

game_message(c) ==
    /\ conn[c].status = "open"
    /\ queue[c] # <<>>
    /\ LET ev == Head(queue[c]) IN
         /\ queue' = [queue EXCEPT ![c] = Tail(@)]
         /\ sock' = IF Accepts(conn[c], c, ev.recipient)
                    THEN [sock EXCEPT ![c] = Append(@, Outgoing(c, ev))]
                    ELSE sock
    /\ UNCHANGED <<conn, groups, calls>>

\* ================================================= HardwareWebSocketClient
\* self.websocket = None
NoSocket == 0

\* connect(): backoff = 0.1 and max_backoff = 5.0, in tenths of a second
initial_backoff == 1
max_backoff     == 50

Min(a, b) == IF a <= b THEN a ELSE b

\* doubling without the cap
NextBackoffUncapped(b) == b * 2

\* connect(): backoff = min(backoff * 2, max_backoff)
NextBackoff(b) == Min(b * 2, max_backoff)

\* a loop that does not look at self.running
LoopContinuesAlways(r) == TRUE

\* connect(): `while self.running` and `if self.running`
LoopContinues(r) == r

\* only a closed connection is handled
CaughtClosedOnly(exc) == exc = "ConnectionClosed"

\* connect(): `except websockets.ConnectionClosed` / `except Exception`
Caught(exc) == exc \in {"ConnectionClosed", "Exception", "JSONDecodeError"}

\* the handle kept after teardown
ClearedHandleKept(h) == h

\* connect(): `self.websocket = None` in the finally block
ClearedHandle(h) == NoSocket

\* A frame as text on the socket, or a message built by the client. j says
\* what json.loads makes of it: "text" does not parse, "list" parses to
\* something that is no mapping, "object" is a mapping with these keys.
Msg(j, type, timestamp, sender_id, recipient) ==
    [j |-> j, type |-> type, timestamp |-> timestamp,
     sender_id |-> sender_id, recipient |-> recipient]
NoMsg == Msg("", Absent, Absent, Absent, Absent)

\* dict.get(key): None for a missing key
Get(v) == IF v = Absent THEN None ELSE v

\* a ping is anything that has a type
IsPingAnyType(data) == data.type # Absent

\* _message_loop: data.get("type") == "ping"
IsPing(data) == Get(data.type) = "ping"

\* a pong without the addressee
PongToNobody(message) ==
    Msg("object", "pong", Get(message.timestamp), Absent, Absent)

\* _handle_ping: the message handed to send_message
PongFor(message) ==
    Msg("object", "pong", Get(message.timestamp), Absent, Get(message.sender_id))

\* no error of a frame is handled inside the loop
FrameErrorCaughtNever(err) == FALSE

\* _message_loop: `except json.JSONDecodeError` / `except Exception`
FrameErrorCaught(err) == err \in {"JSONDecodeError", "Exception"}

\* _message_loop: what one frame raises inside the inner try, "none" if
\* nothing. raises: the application's handle_message raises on this frame.
FrameError(f, raises) ==
    IF f.j = "text" THEN "JSONDecodeError"
    ELSE IF f.j # "object" THEN "Exception"        \* data.get: AttributeError
    ELSE IF IsPing(f) THEN "none"                  \* send_message raises nothing
    ELSE IF raises THEN "Exception"
    ELSE "none"

\* one entry of trace
Ev(ev, s, cause, msg, out, d) ==
    [ev |-> ev, s |-> s, cause |-> cause, msg |-> msg, out |-> out, d |-> d]
Did(ev, s) == Ev(ev, s, 0, NoMsg, "", 0)

\* a write whenever the connection is up, handle or not
send_message_unguarded(handle, up, message, cause) ==
    <<Ev("write", handle, cause, message, IF up THEN "sent" ELSE "failed", 0)>>

\* send_message: what happens on the socket. Without a socket handle the
\* message is dropped; the write of websocket.send succeeds if the connection
\* is up and raises otherwise, which send_message logs and swallows.
\* cause is the place in trace of the call or frame the message comes from.
send_message(handle, up, message, cause) ==
    IF handle = NoSocket THEN <<>>
    ELSE <<Ev("write", handle, cause, message, IF up THEN "sent" ELSE "failed", 0)>>

Count(evs) == Cardinality({i \in DOMAIN trace : trace[i].ev \in evs})
Attempts == Count({"attempt"})
Failures == Count({"connect_error", "closed"})
Frames   == Count({"frame"})
Sends    == Count({"send"})
Stopped  == Count({"stop"}) > 0

\* __init__: not running, no socket
ClientInit ==
    /\ running = FALSE
    /\ websocket = NoSocket
    /\ backoff = initial_backoff
    /\ pc = "created"
    /\ alive = FALSE
    /\ raising = "none"
    /\ trace = <<>>

\* connect(): the head of the loop, reached with self.running = r after the
\* client did tr: the next attempt starts, or connect() and run() return
LoopHead(r, tr) ==
    IF LoopContinues(r)
    THEN /\ pc' = "connecting"
         /\ trace' = Append(tr, Did("attempt", Attempts + 1))
    ELSE /\ pc' = "returned"
         /\ trace' = Append(tr, Did("return", 0))

\* run(): up to the first await of connect()
run ==
    /\ pc = "created"
    /\ running' = TRUE
    /\ backoff' = initial_backoff
    /\ LoopHead(TRUE, Append(trace, Did("run", 0)))
    /\ UNCHANGED <<websocket, alive, raising>>

\* stop()
stop ==
    /\ running' = FALSE
    /\ trace' = Append(trace, Did("stop", 0))
    /\ UNCHANGED <<websocket, backoff, pc, alive, raising>>

\* websockets.connect raises (refused, timeout, bad handshake): the except
\* clauses, then the finally block awaits teardown()
connect_fails ==
    /\ pc = "connecting"
    /\ pc' = "teardown"
    /\ raising' = IF Caught("Exception") THEN "none" ELSE "Exception"
    /\ trace' = Append(trace, Did("connect_error", Attempts))
    /\ UNCHANGED <<running, websocket, backoff, alive>>

\* the handshake succeeds: the handle is kept and setup() awaited
connect_ok ==
    /\ pc = "connecting"
    /\ websocket' = Attempts
    /\ alive' = TRUE
    /\ pc' = "setup"
    /\ trace' = Append(trace, Did("handshake", Attempts))
    /\ UNCHANGED <<running, backoff, raising>>

\* setup() returns: the backoff is reset and the message loop entered
setup_done ==
    /\ pc = "setup"
    /\ backoff' = initial_backoff
    /\ pc' = "connected"
    /\ trace' = Append(trace, Did("setup", websocket))
    /\ UNCHANGED <<running, websocket, alive, raising>>

\* the peer or the network closes the connection of the current socket
peer_closes ==
    /\ pc \in {"setup", "connected"}
    /\ alive
    /\ alive' = FALSE
    /\ trace' = Append(trace, Did("closed", websocket))
    /\ UNCHANGED <<running, websocket, backoff, pc, raising>>

\* _message_loop on a closed connection: the iteration ends (normal close,
\* exc = "none") or raises ConnectionClosed; then the finally block
loop_ends(exc) ==
    /\ pc = "connected"
    /\ ~alive
    /\ pc' = "teardown"
    /\ raising' = IF exc = "none" \/ Caught(exc) THEN "none" ELSE exc
    /\ trace' = Append(trace, Ev("lost", websocket, 0, NoMsg, exc, 0))
    /\ UNCHANGED <<running, websocket, backoff, alive>>

\* teardown() returns: the handle is cleared; then the exception goes on,
\* or the client sleeps for backoff, or the loop ends
teardown_done ==
    /\ pc = "teardown"
    /\ websocket' = ClearedHandle(websocket)
    /\ LET tr == trace \o <<Did("teardown", websocket),
                             Did("clear", ClearedHandle(websocket))>>
       IN IF raising # "none"
          THEN /\ pc' = "raised"
               /\ running' = FALSE
               /\ trace' = Append(tr, Ev("raise", 0, 0, NoMsg, raising, 0))
          ELSE IF LoopContinues(running)
          THEN /\ pc' = "sleeping"
               /\ running' = running
               /\ trace' = Append(tr, Ev("sleep", 0, 0, NoMsg, "", backoff))
          ELSE /\ running' = running
               /\ LoopHead(running, tr)
    /\ UNCHANGED <<backoff, alive, raising>>

\* asyncio.sleep(backoff) returns: the backoff grows, the loop goes round
sleep_done ==
    /\ pc = "sleeping"
    /\ backoff' = NextBackoff(backoff)
    /\ LoopHead(running, trace)
    /\ UNCHANGED <<running, websocket, alive, raising>>

\* the application calls send_message(message) from outside the loop
app_send(message) ==
    /\ trace' = Append(trace, Ev("send", websocket, 0, message, "", 0))
                   \o send_message(websocket, alive, message, Len(trace) + 1)
    /\ UNCHANGED <<running, websocket, backoff, pc, alive, raising>>

\* _message_loop: one frame f read from the socket and handled.
\* raises: handle_message raises on it; dies: the connection goes down
\* after the frame arrived and before the client answers it.
recv_frame(f, raises, dies) ==
    /\ pc = "connected"
    /\ alive
    /\ LET at   == Len(trace) + 1
           up   == ~dies
           err  == FrameError(f, raises)
           seen == <<Ev("frame", websocket, 0, f, err, 0)>>
                   \o (IF dies THEN <<Did("closed", websocket)>> ELSE <<>>)
           done == IF f.j # "object" THEN <<>>
                   ELSE IF IsPing(f)
                   THEN send_message(websocket, up, PongFor(f), at)
                   ELSE <<Ev("dispatch", websocket, at, f,
                             IF raises THEN "raised" ELSE "returned", 0)>>
       IN IF err = "none" \/ FrameErrorCaught(err)
          THEN /\ trace' = trace \o seen \o done
               /\ pc' = "connected"
               /\ alive' = up
               /\ raising' = raising
          ELSE /\ trace' = trace \o seen \o done \o <<Ev("lost", websocket, 0, NoMsg, err, 0)>>
               /\ pc' = "teardown"
               /\ alive' = FALSE
               /\ raising' = IF Caught(err) THEN "none" ELSE err
    /\ UNCHANGED <<running, websocket, backoff>>

\* ========================================================= OSCBridgeClient
\* Python values in messages, rule conditions, defaults and OSC arguments:
\* k is the Python type, n the number in hundredths, s the string.
\* "absent" is a key that is not there, "error" a raised exception.
Val(k, n, s) == [k |-> k, n |-> n, s |-> s]
VAbsent   == Val("absent", 0, "")
VNone     == Val("none", 0, "")
VError    == Val("error", 0, "")
VBool(b)  == Val("bool", IF b THEN 100 ELSE 0, "")
VInt(i)   == Val("int", i * 100, "")
VFloat(h) == Val("float", h, "")
VStr(t)   == Val("str", 0, t)

IsNumber(v) == v.k \in {"bool", "int", "float"}

\* Python ==: True == 1 == 1.0, otherwise same type and same content
PyEq(a, b) ==
    IF IsNumber(a) /\ IsNumber(b) THEN a.n = b.n
    ELSE a.k = b.k /\ a.n = b.n /\ a.s = b.s

\* Python bool(value)
PyTruth(v) ==
    CASE IsNumber(v)  -> v.n # 0
      [] v.k = "str"  -> v.s # ""
      [] OTHER        -> FALSE

\* the integer part of a number in hundredths, towards zero
Trunc(n) == IF n >= 0 THEN n \div 100 ELSE -((-n) \div 100)

\* Python int(value)
PyInt(v) ==
    CASE IsNumber(v) -> VInt(Trunc(v.n))
      [] v.k = "str" -> IF v.s = "7" THEN VInt(7) ELSE VError   \* ValueError
      [] OTHER       -> VError                                  \* TypeError

\* Python float(value)
PyFloat(v) ==
    CASE IsNumber(v) -> VFloat(v.n)
      [] v.k = "str" -> IF v.s = "7" THEN VFloat(700)
                        ELSE IF v.s = "3.14" THEN VFloat(314)
                        ELSE VError
      [] OTHER       -> VError

\* the digits after the point of Python's repr of a float, c hundredths
Decimals(c) ==
    IF c % 10 = 0 THEN ToString(c \div 10)
    ELSE (IF c < 10 THEN "0" ELSE "") \o ToString(c)

\* Python str(value)
PyStr(v) ==
    CASE v.k = "str"   -> v
      [] v.k = "bool"  -> VStr(IF v.n # 0 THEN "True" ELSE "False")
      [] v.k = "int"   -> VStr(ToString(Trunc(v.n)))
      [] v.k = "float" ->
           LET a == IF v.n >= 0 THEN v.n ELSE -v.n IN
           VStr((IF v.n < 0 THEN "-" ELSE "") \o ToString(a \div 100)
                \o "." \o Decimals(a % 100))
      [] OTHER         -> VStr("None")

OSCTypes   == {"int", "float", "bool", "string"}
Directions == {"to_osc", "to_websocket"}

\* one for which a type that is not an OSC type is an error
convert_type_strict(value, target_type, direction) ==
    IF target_type = None THEN value
    ELSE IF direction \notin Directions \/ target_type \notin OSCTypes
    THEN VError
    ELSE CASE target_type = "int" ->
                IF direction = "to_osc" /\ value.k = "bool"
                THEN VInt(IF value.n # 0 THEN 1 ELSE 0)
                ELSE PyInt(value)
           [] target_type = "float" -> PyFloat(value)
           [] target_type = "bool" ->
                IF direction = "to_websocket" /\ IsNumber(value)
                THEN VBool(value.n > 50)
                ELSE VBool(PyTruth(value))
           [] target_type = "string" -> PyStr(value)

\* _convert_type; target_type None when the argument declares no type
convert_type(value, target_type, direction) ==
    IF target_type = None THEN value
    ELSE IF direction \notin Directions \/ target_type \notin OSCTypes THEN value
    ELSE CASE target_type = "int" ->
                IF direction = "to_osc" /\ value.k = "bool"
                THEN VInt(IF value.n # 0 THEN 1 ELSE 0)
                ELSE PyInt(value)
           [] target_type = "float" -> PyFloat(value)
           [] target_type = "bool" ->
                IF direction = "to_websocket" /\ IsNumber(value)
                THEN VBool(value.n > 50)
                ELSE VBool(PyTruth(value))
           [] target_type = "string" -> PyStr(value)

\* the keys of messages that rules read
Fields == {"enabled", "value1", "value2", "missing"}

\* a message handed to handle_message: its type and its other keys
BMsg(type, enabled_, value1, value2) ==
    [type |-> type,
     fields |-> [f \in Fields |->
                   CASE f = "enabled" -> enabled_
                     [] f = "value1"  -> value1
                     [] f = "value2"  -> value2
                     [] OTHER         -> VAbsent]]

\* message.get(field)
MGet(message, field) ==
    IF message.fields[field].k = "absent" THEN VNone ELSE message.fields[field]

\* one entry of args: arg_spec.get("type") and .get("default") are None
\* (VNone) when not declared
Arg(field, type, default) == [field |-> field, type |-> type, default |-> default]

\* a destination mapping; args.has says whether the key is there
Dest(host, port, address, has, args) ==
    [host |-> host, port |-> port, address |-> address,
     args |-> [has |-> has, v |-> args]]
NoDest == Dest(Absent, Absent, Absent, FALSE, <<>>)

\* conditions: the expected value per key, VAbsent for a key not named
Conds(enabled_, value1, value2) ==
    [f \in Fields |->
        CASE f = "enabled" -> enabled_
          [] f = "value1"  -> value1
          [] f = "value2"  -> value2
          [] OTHER         -> VAbsent]
NoConds == Conds(VAbsent, VAbsent, VAbsent)

Rule(websocket_type, conditions, osc_destinations) ==
    [websocket_type |-> websocket_type, conditions |-> conditions,
     osc_destinations |-> osc_destinations]

\* one met condition is enough
ConditionsMetSome(message, rule) ==
    \E f \in Fields :
        /\ rule.conditions[f].k # "absent"
        /\ PyEq(MGet(message, f), rule.conditions[f])

\* _send_osc_from_websocket: the loop over conditions
ConditionsMet(message, rule) ==
    \A f \in Fields :
        rule.conditions[f].k # "absent"
            => PyEq(MGet(message, f), rule.conditions[f])

\* {**default_dest, **dest}
Merge(default_dest, dest) ==
    [host    |-> IF dest.host # Absent THEN dest.host ELSE default_dest.host,
     port    |-> IF dest.port # Absent THEN dest.port ELSE default_dest.port,
     address |-> IF dest.address # Absent THEN dest.address
                 ELSE default_dest.address,
     args    |-> IF dest.args.has THEN dest.args ELSE default_dest.args]

\* Python truth value of a destination mapping, and of one of its strings
DestTruthy(d) ==
    d.host # Absent \/ d.port # Absent \/ d.address # Absent \/ d.args.has
StrTruthy(x) == x # Absent /\ x # ""

\* a missing argument is left out and the loop goes on
RECURSIVE MapArgsSkipping(_, _, _, _)
MapArgsSkipping(message, args_config, i, osc_args) ==
    IF i > Len(args_config) THEN [out |-> "send", osc_args |-> osc_args]
    ELSE LET arg_spec == args_config[i]
             got   == MGet(message, arg_spec.field)
             conv  == convert_type(got, arg_spec.type, "to_osc")
         IN IF got.k = "none"
            THEN MapArgsSkipping(message, args_config, i + 1, osc_args)
            ELSE IF conv.k = "error"
            THEN [out |-> "raise", osc_args |-> osc_args]
            ELSE MapArgsSkipping(message, args_config, i + 1,
                                 Append(osc_args, conv))

\* one that sends what it has when a field is missing without default
RECURSIVE MapArgsPartial(_, _, _, _)
MapArgsPartial(message, args_config, i, osc_args) ==
    IF i > Len(args_config) THEN [out |-> "send", osc_args |-> osc_args]
    ELSE LET arg_spec == args_config[i]
             got   == MGet(message, arg_spec.field)
             value == IF got.k = "none" THEN arg_spec.default ELSE got
             conv  == convert_type(value, arg_spec.type, "to_osc")
         IN IF value.k = "none"
            THEN [out |-> "send", osc_args |-> osc_args]
            ELSE IF conv.k = "error"
            THEN [out |-> "raise", osc_args |-> osc_args]
            ELSE MapArgsPartial(message, args_config, i + 1,
                                Append(osc_args, conv))

\* _send_osc_from_websocket: the loop over args_config from entry i on.
\* out is "send" when the loop ran to its end (the else branch sends
\* osc_args), "break" on a field that is missing without default, "raise"
\* when a conversion raised
RECURSIVE MapArgs(_, _, _, _)
MapArgs(message, args_config, i, osc_args) ==
    IF i > Len(args_config) THEN [out |-> "send", osc_args |-> osc_args]
    ELSE LET arg_spec == args_config[i]
             got   == MGet(message, arg_spec.field)
             value == IF got.k = "none" THEN arg_spec.default ELSE got
             conv  == convert_type(value, arg_spec.type, "to_osc")
         IN IF value.k = "none"
            THEN [out |-> "break", osc_args |-> osc_args]
            ELSE IF conv.k = "error"
            THEN [out |-> "raise", osc_args |-> osc_args]
            ELSE MapArgs(message, args_config, i + 1, Append(osc_args, conv))

\* the destinations a rule sends to
Destinations(cfg, rule) ==
    IF rule.osc_destinations = <<>> /\ DestTruthy(cfg.default_destination)
    THEN <<cfg.default_destination>>
    ELSE rule.osc_destinations

\* _get_osc_client: key = f"{host}:{port}"
Key(host, port) == host \o ":" \o port

\* the hosts and ports of the destinations
UdpPeers == {Key("10.0.0.2", "9000"), Key("192.168.1.100", "53000")}

\* what SimpleUDPClient(host, port) and client.send_message do for a key:
\* "ok", "create_error" (the constructor raises) or "send_error"
NetOutcomes == {"ok", "create_error", "send_error"}
NetOf(key) == IF key \in DOMAIN net THEN net[key] ELSE "ok"

\* destination d of rule r reached _get_osc_client and
\* client.send_message(address, osc_args) for message n; out is "sent",
\* "send_error" (send_message raised), "create_error" (the client could
\* not be made, nothing was sent) or "raised" (an exception of the
\* destination left _send_osc_from_websocket)
Packet(n, r, d, merged, osc_args, out) ==
    [n |-> n, rule |-> r, dest |-> d, host |-> merged.host,
     port |-> merged.port, address |-> merged.address, args |-> osc_args,
     out |-> out]

\* only a failing send is caught
DestErrorCaughtSendOnly(exc) == exc = "send"

\* _send_osc_from_websocket: except Exception around the destination
DestErrorCaught(exc) == exc \in {"send", "create", "coercion"}

\* an exception left the loop over destinations
Escaped(entries) ==
    entries # <<>> /\ entries[Len(entries)].out = "raised"

\* _send_osc_from_websocket: the body of the loop over destinations
SendToDest(cfg, message, dest, n, r, d) ==
    LET merged == Merge(cfg.default_destination, dest) IN
    IF ~StrTruthy(merged.host) \/ ~StrTruthy(merged.port)
           \/ ~StrTruthy(merged.address)
    THEN <<>>
    ELSE LET res == MapArgs(message, IF merged.args.has THEN merged.args.v
                                     ELSE <<>>, 1, <<>>)
             how == NetOf(Key(merged.host, merged.port))
             exc == CASE res.out = "raise"  -> "coercion"
                      [] res.out = "break"  -> "none"
                      [] how = "create_error" -> "create"
                      [] how = "send_error"   -> "send"
                      [] OTHER                -> "none"
         IN (IF res.out = "send"
             THEN <<Packet(n, r, d, merged, res.osc_args,
                           IF how = "ok" THEN "sent" ELSE how)>>
             ELSE <<>>)
            \o (IF exc = "none" \/ DestErrorCaught(exc) THEN <<>>
                ELSE <<Packet(n, r, d, merged, <<>>, "raised")>>)

RECURSIVE SendToDests(_, _, _, _, _, _)
SendToDests(cfg, message, dests, n, r, d) ==
    IF d > Len(dests) THEN <<>>
    ELSE LET one == SendToDest(cfg, message, dests[d], n, r, d) IN
         IF Escaped(one) THEN one
         ELSE one \o SendToDests(cfg, message, dests, n, r, d + 1)

\* _send_osc_from_websocket(message, rule): the packets sent
send_osc_from_websocket(cfg, message, rule, n, r) ==
    IF ~ConditionsMet(message, rule) THEN <<>>
    ELSE SendToDests(cfg, message, Destinations(cfg, rule), n, r, 1)

\* handle_message: the loop over the outgoing rules from rule r on
RECURSIVE handle_message(_, _, _, _)
handle_message(cfg, message, n, r) ==
    IF r > Len(cfg.outgoing) THEN <<>>
    ELSE LET one == IF cfg.outgoing[r].websocket_type = message.type
                    THEN send_osc_from_websocket(cfg, message,
                                                 cfg.outgoing[r], n, r)
                    ELSE <<>>
         IN IF Escaped(one) THEN one
            ELSE one \o handle_message(cfg, message, n, r + 1)

\* ---- incoming rules
\* one entry of an incoming rule's args, and an incoming rule
IArg(osc_index, websocket_field, type) ==
    [osc_index |-> osc_index, websocket_field |-> websocket_field,
     type |-> type]
IRule(osc_address, websocket_type, args) ==
    [osc_address |-> osc_address, websocket_type |-> websocket_type,
     args |-> args]

\* the keyword arguments of send_message that incoming rules fill
WsFields == {"buzzerId", "pressure"}
NoFields == [f \in WsFields |-> VAbsent]

\* one call self.send_message(websocket_type, **message_fields), made for
\* the e-th OSC event by incoming rule r
WsMessage(e, r, websocket_type, message_fields) ==
    [e |-> e, rule |-> r, type |-> websocket_type, fields |-> message_fields]

\* one that goes on with the next entry when an index is out of range
RECURSIVE MapFieldsPartial(_, _, _, _)
MapFieldsPartial(osc_args, args_config, i, message_fields) ==
    IF i > Len(args_config)
    THEN [out |-> "send", message_fields |-> message_fields]
    ELSE LET arg_spec == args_config[i] IN
         IF arg_spec.osc_index >= Len(osc_args)
         THEN MapFieldsPartial(osc_args, args_config, i + 1, message_fields)
         ELSE LET conv == convert_type(osc_args[arg_spec.osc_index + 1],
                                       arg_spec.type, "to_websocket")
              IN IF conv.k = "error"
                 THEN [out |-> "raise", message_fields |-> message_fields]
                 ELSE MapFieldsPartial(osc_args, args_config, i + 1,
                        [message_fields EXCEPT
                            ![arg_spec.websocket_field] = conv])

\* _send_websocket_from_osc: the loop over args_config from entry i on.
\* out is "send" when the loop ran to its end, "return" on an osc_index
\* that the event has no argument for, "raise" when a conversion raised
RECURSIVE MapFields(_, _, _, _)
MapFields(osc_args, args_config, i, message_fields) ==
    IF i > Len(args_config)
    THEN [out |-> "send", message_fields |-> message_fields]
    ELSE LET arg_spec == args_config[i] IN
         IF arg_spec.osc_index >= Len(osc_args)
         THEN [out |-> "return", message_fields |-> message_fields]
         ELSE LET conv == convert_type(osc_args[arg_spec.osc_index + 1],
                                       arg_spec.type, "to_websocket")
              IN IF conv.k = "error"
                 THEN [out |-> "raise", message_fields |-> message_fields]
                 ELSE MapFields(osc_args, args_config, i + 1,
                        [message_fields EXCEPT
                            ![arg_spec.websocket_field] = conv])

\* _send_websocket_from_osc(osc_args, rule): the messages sent
send_websocket_from_osc(osc_args, rule, e, r) ==
    LET res == MapFields(osc_args, rule.args, 1, NoFields) IN
    IF res.out = "send"
    THEN <<WsMessage(e, r, rule.websocket_type, res.message_fields)>>
    ELSE <<>>

\* one that goes on to the next rule for the address when a rule sent
\* nothing
RECURSIVE handle_osc_message_until_sent(_, _, _, _, _)
handle_osc_message_until_sent(cfg, address, args, e, r) ==
    IF r > Len(cfg.incoming) THEN <<>>
    ELSE IF cfg.incoming[r].osc_address = address
            /\ send_websocket_from_osc(args, cfg.incoming[r], e, r) # <<>>
    THEN send_websocket_from_osc(args, cfg.incoming[r], e, r)
    ELSE handle_osc_message_until_sent(cfg, address, args, e, r + 1)

\* _handle_osc_message(address, *args): the loop over the incoming rules
\* from rule r on; it returns after the first rule for the address
RECURSIVE handle_osc_message(_, _, _, _, _)
handle_osc_message(cfg, address, args, e, r) ==
    IF r > Len(cfg.incoming) THEN <<>>
    ELSE IF cfg.incoming[r].osc_address = address
    THEN send_websocket_from_osc(args, cfg.incoming[r], e, r)
    ELSE handle_osc_message(cfg, address, args, e, r + 1)

\* a cache that never finds a key
CachedNever(clients, key) == FALSE

\* _get_osc_client: key in self.osc_clients
Cached(clients, key) == key \in DOMAIN clients

\* the client objects made so far are numbered 1, 2, ...
Objects(log) == Cardinality({i \in DOMAIN log : log[i].made})

\* _get_osc_client(host, port) with the cache clients and the log of
\* returns so far; the call comes back with nothing when the constructor
\* raises
get_osc_client(clients, log, key) ==
    IF Cached(clients, key)
    THEN [clients |-> clients,
          log |-> Append(log, [key |-> key, obj |-> clients[key],
                               made |-> FALSE])]
    ELSE IF NetOf(key) = "create_error"
    THEN [clients |-> clients, log |-> log]
    ELSE LET obj == Objects(log) + 1 IN
         [clients |-> [k \in DOMAIN clients \cup {key} |->
                          IF k = key THEN obj ELSE clients[k]],
          log |-> Append(log, [key |-> key, obj |-> obj, made |-> TRUE])]

\* the calls of _get_osc_client for the destinations in entries from
\* entry i on, one after the other
RECURSIVE get_osc_clients(_, _, _, _)
get_osc_clients(clients, log, entries, i) ==
    IF i > Len(entries) THEN [clients |-> clients, log |-> log]
    ELSE IF entries[i].out = "raised"
    THEN get_osc_clients(clients, log, entries, i + 1)
    ELSE LET one == get_osc_client(clients, log,
                                   Key(entries[i].host, entries[i].port))
         IN get_osc_clients(one.clients, one.log, entries, i + 1)

\* __init__: the configuration is what the bridge was started with
NoConfig == [default_destination |-> NoDest, outgoing |-> <<>>,
             incoming |-> <<>>]
NetUp == [key \in UdpPeers |-> "ok"]
BridgeFresh ==
    /\ handled = <<>>
    /\ udp = <<>>
    /\ osc_clients = <<>>
    /\ clients_got = <<>>
    /\ tasks = {}
    /\ osc_in = <<>>
    /\ ws = <<>>
    /\ conversions = <<>>
BridgeIdle ==
    /\ config = NoConfig
    /\ net = NetUp
    /\ BridgeFresh

\* ============================================== BuzzerThread, BuzzerClient
\* self.selected = None
NoChannel == -1

\* run: for c in range(7), without channel 3
LastChannel == 6
SkippedChannel == 3

\* __init__ of BuzzerThread and BuzzerClient: disarmed, nothing selected, no
\* callback, thread not started
ScannerInit ==
    /\ enabled = FALSE
    /\ selected = NoChannel
    /\ callback = FALSE
    /\ scan_pc = "new"
    /\ chan = 0
    /\ latched = <<>>
    /\ presses = <<>>
    /\ listen_pc = "new"
    /\ toggles = 0
    /\ losses = 0
    /\ cleared = 0
    /\ scheduled = <<>>
    /\ sent = <<>>
    /\ log_level = "INFO"

\* run_async: the callback is set, the thread started, the connection
\* made and the listener started
run_async ==
    /\ listen_pc = "new"
    /\ callback' = TRUE
    /\ scan_pc' = "top"
    /\ listen_pc' = "listening"
    /\ UNCHANGED <<enabled, selected, chan, latched, presses, toggles,
                   losses, cleared,
                   scheduled, sent, log_level>>

\* the scanner scans whatever is selected
ScanAllowedAlways(sel) == TRUE

\* run: `if self.selected != None` is false
ScanAllowed(sel) == sel = NoChannel

\* run, top of the loop: parked on the selected channel, or a new pass
\* over the channels
run_top ==
    /\ scan_pc = "top"
    /\ IF ScanAllowed(selected)
       THEN scan_pc' = "check" /\ chan' = 0
       ELSE scan_pc' = "parked" /\ chan' = chan
    /\ UNCHANGED <<enabled, selected, callback, latched, presses, listen_pc,
                   toggles, losses, cleared,
                   scheduled, sent, log_level>>

\* the scanner calls the callback each time it reasserts the channel
run_parked_calling ==
    /\ scan_pc = "parked"
    /\ scan_pc' = "top"
    /\ presses' = Append(presses, chan)
    /\ UNCHANGED <<enabled, selected, callback, chan, latched, listen_pc,
                   toggles, losses, cleared,
                   scheduled, sent, log_level>>

\* run, parked: the channel and the enable line are set again, continue
run_parked ==
    /\ scan_pc = "parked"
    /\ scan_pc' = "top"
    /\ UNCHANGED <<enabled, selected, callback, chan, latched, presses,
                   listen_pc, toggles, losses, cleared,
                   scheduled, sent, log_level>>

\* the for loop goes on to the channel after ch, or ends
NextChannelOf(ch) ==
    IF ch >= LastChannel THEN [pc |-> "top", c |-> ch]
    ELSE [pc |-> "check", c |-> ch + 1]

\* run, for channel c: skipped, or selected on the lines and
\* `if self.enabled` read
run_check ==
    /\ scan_pc = "check"
    /\ IF chan # SkippedChannel /\ enabled
       THEN scan_pc' = "input" /\ chan' = chan
       ELSE scan_pc' = NextChannelOf(chan).pc /\ chan' = NextChannelOf(chan).c
    /\ UNCHANGED <<enabled, selected, callback, latched, presses, listen_pc,
                   toggles, losses, cleared,
                   scheduled, sent, log_level>>

\* run: button = gpio.input(IN); low (pressed) or high
run_input(pressed) ==
    /\ scan_pc = "input"
    /\ IF pressed
       THEN scan_pc' = "latch" /\ chan' = chan
       ELSE scan_pc' = NextChannelOf(chan).pc /\ chan' = NextChannelOf(chan).c
    /\ UNCHANGED <<enabled, selected, callback, latched, presses, listen_pc,
                   toggles, losses, cleared,
                   scheduled, sent, log_level>>

\* run: self.selected = c
run_latch ==
    /\ scan_pc = "latch"
    /\ selected' = chan
    /\ latched' = Append(latched, chan)
    /\ scan_pc' = "call"
    /\ UNCHANGED <<enabled, callback, chan, presses, listen_pc, toggles,
                   losses, cleared,
                   scheduled, sent, log_level>>

\* run: `if self.callback: self.callback(c)`, then break
run_call ==
    /\ scan_pc = "call"
    /\ presses' = IF callback THEN Append(presses, chan) ELSE presses
    /\ scheduled' = IF callback THEN Append(scheduled, chan) ELSE scheduled
    /\ scan_pc' = "top"
    /\ UNCHANGED <<enabled, selected, callback, chan, latched, listen_pc,
                   toggles, losses, cleared, sent, log_level>>

\* a toggle_buzzers message that clears the latch whatever enabled is
toggle_buzzers_clearing(e, nt) ==
    /\ listen_pc = "listening"
    /\ toggles < nt
    /\ toggles' = toggles + 1
    /\ enabled' = e
    /\ listen_pc' = "clearing"
    /\ UNCHANGED <<selected, callback, scan_pc, chan, latched, presses,
                   losses, cleared, scheduled, sent, log_level>>

\* listen_for_messages, a toggle_buzzers message: self.buzzers.enabled =
\* data['enabled']
toggle_buzzers(e, nt) ==
    /\ listen_pc = "listening"
    /\ toggles < nt
    /\ toggles' = toggles + 1
    /\ enabled' = e
    /\ listen_pc' = IF e THEN "clearing" ELSE "listening"
    /\ UNCHANGED <<selected, callback, scan_pc, chan, latched, presses,
                   losses, cleared,
                   scheduled, sent, log_level>>

\* listen_for_messages, toggle_buzzers with enabled true:
\* self.buzzers.selected = None, and buzzer_pressed with a null buzzerId
\* is sent; a send that raises ConnectionClosed disables the buzzers
toggle_clear(ok, nl) ==
    /\ listen_pc = "clearing"
    /\ selected' = NoChannel
    /\ cleared' = cleared + 1
    /\ IF ok
       THEN /\ sent' = Append(sent, NoChannel)
            /\ listen_pc' = "listening"
            /\ UNCHANGED <<enabled, losses>>
       ELSE /\ losses < nl
            /\ losses' = losses + 1
            /\ enabled' = FALSE
            /\ listen_pc' = "down"
            /\ UNCHANGED sent
    /\ UNCHANGED <<callback, scan_pc, chan, latched, presses, toggles,
                   scheduled, log_level>>

\* the names getattr(logging, level.upper(), None) gives an int for
LogLevels == {"DEBUG", "INFO"}

\* listen_for_messages, a buzzer_set_log_level message
set_log_level(level) ==
    /\ listen_pc = "listening"
    /\ log_level' = IF level \in LogLevels THEN level ELSE log_level
    /\ UNCHANGED <<enabled, selected, callback, scan_pc, chan, latched,
                   presses, listen_pc, toggles, losses, cleared, scheduled,
                   sent>>

\* a loss of the connection that leaves the buzzers as they are
connection_lost_armed(nl) ==
    /\ listen_pc = "listening"
    /\ losses < nl
    /\ losses' = losses + 1
    /\ listen_pc' = "down"
    /\ UNCHANGED <<enabled, selected, callback, scan_pc, chan, latched,
                   presses, toggles, cleared, scheduled, sent, log_level>>

\* listen_for_messages: recv raises ConnectionClosed, the buzzers are
\* disabled and the client sleeps
connection_lost(nl) ==
    /\ listen_pc = "listening"
    /\ losses < nl
    /\ losses' = losses + 1
    /\ enabled' = FALSE
    /\ listen_pc' = "down"
    /\ UNCHANGED <<selected, callback, scan_pc, chan, latched, presses,
                   toggles, cleared, scheduled, sent, log_level>>

\* listen_for_messages: a frame that is no JSON or has no type raises
\* another exception, the buzzers are disabled and the client sleeps
message_error(nl) ==
    /\ listen_pc = "listening"
    /\ losses < nl
    /\ losses' = losses + 1
    /\ enabled' = FALSE
    /\ listen_pc' = "error"
    /\ UNCHANGED <<selected, callback, scan_pc, chan, latched, presses,
                   toggles, cleared, scheduled, sent, log_level>>

\* a reconnect that cannot fail to keep the loop going
AfterFailedReconnectAlways(at) == "listening"

\* where listen_for_messages is after a connect() that raised: out of the
\* function when it was called in `except websockets.ConnectionClosed`,
\* back at recv when it was called in the try of `except Exception`
AfterFailedReconnect(at) == IF at = "down" THEN "ended" ELSE "listening"

\* listen_for_messages: the sleep is over and connect() returns or raises
reconnect(ok) ==
    /\ listen_pc \in {"down", "error"}
    /\ listen_pc' = IF ok THEN "listening" ELSE AfterFailedReconnect(listen_pc)
    /\ UNCHANGED <<enabled, selected, callback, scan_pc, chan, latched,
                   presses, toggles, losses, cleared, scheduled, sent,
                   log_level>>

\* handle_buzzer_press, run by the loop while listen_for_messages waits:
\* the message is sent, or the send raises and is logged
handle_buzzer_press(ok) ==
    /\ scheduled # <<>>
    /\ listen_pc \in {"listening", "down", "error", "ended"}
    /\ listen_pc \in {"down", "ended"} => ~ok
    /\ scheduled' = Tail(scheduled)
    /\ sent' = IF ok THEN Append(sent, Head(scheduled)) ELSE sent
    /\ UNCHANGED <<enabled, selected, callback, scan_pc, chan, latched,
                   presses, listen_pc, toggles, losses, cleared, log_level>>

\* ================================================== game/services.py
\* points=None: the question's points count
NoPoints == -1

\* two calls at a time, each in its own transaction
Transactions == {1, 2}
\* an uncommitted write: op is none, insert, delete or update
Write(op, rows) == [op |-> op, rows |-> rows]
NoWrite == Write("none", {})
TxnCall(pc_, player_id, question_id, is_correct, points, found, pending, result) ==
    [pc |-> pc_, player_id |-> player_id, question_id |-> question_id,
     is_correct |-> is_correct, points |-> points, found |-> found,
     pending |-> pending, result |-> result]
NoCall == TxnCall("idle", 0, 0, FALSE, NoPoints, {}, NoWrite, <<>>)

Players   == {1, 2}
Questions == {1, 2}
\* Question.points, as in the fixtures of the tests
QuestionPoints(question_id) == question_id * 100

\* no rows, no calls
ServicesInit ==
    /\ answers = {}
    /\ answer_pk = 0
    /\ score_version = [p \in Players |-> 0]
    /\ recorded = <<>>
    /\ returned = <<>>
    /\ question_answered = [q \in Questions |-> FALSE]
    /\ state_version = [q \in Questions |-> 0]
    /\ status_returned = <<>>
    /\ requests = <<>>
    /\ txns = [stored |-> {}, version |-> 0,
               call |-> [t \in Transactions |-> NoCall]]

\* a version that stays as it is
NextVersionKept(version) == version

\* F('score_version') + 1, F('state_version') + 1
NextVersion(version) == version + 1

\* update_question_status(question_id, answered), in one transaction
update_question_status(question_id, answered) ==
    /\ question_answered' = [question_answered EXCEPT ![question_id] = answered]
    /\ state_version' =
          [state_version EXCEPT ![question_id] = NextVersion(@)]
    /\ status_returned' =
          Append(status_returned,
                 [question_id |-> question_id, answered |-> answered,
                  version |-> NextVersion(state_version[question_id])])
    /\ UNCHANGED <<answers, answer_pk, score_version, recorded, returned>>

\* PlayerAnswer.objects.get(player_id=..., question_id=...): the rows found
get_answer(table, player_id, question_id) ==
    {a \in table : a.player = player_id /\ a.question = question_id}

\* a change of correctness is never seen
CorrectnessChangedNever(answer, is_correct) == FALSE

\* record_player_answer: answer.is_correct != is_correct
CorrectnessChanged(answer, is_correct) == answer.is_correct # is_correct

\* the aggregate over the player's answers: points, or the question's
\* points where points is null
RECURSIVE SumPoints(_)
SumPoints(rows) ==
    IF rows = {} THEN 0
    ELSE LET a == CHOOSE x \in rows : TRUE IN
         (IF a.points # NoPoints THEN a.points ELSE QuestionPoints(a.question))
         + SumPoints(rows \ {a})
Score(table, player_id) == SumPoints({a \in table : a.player = player_id})

\* record_player_answer: the rows after the try block; pk is the key a
\* new row gets
StoreAnswer(table, pk, player_id, question_id, is_correct, points) ==
    LET found == get_answer(table, player_id, question_id) IN
    IF found = {}
    THEN table \cup {[id |-> pk, player |-> player_id,
                      question |-> question_id, is_correct |-> is_correct,
                      points |-> points]}
    ELSE LET answer == CHOOSE a \in found : TRUE IN
         IF CorrectnessChanged(answer, is_correct)
         THEN table \ {answer}
         ELSE IF answer.points # points
         THEN (table \ {answer}) \cup {[answer EXCEPT !.points = points]}
         ELSE table

\* record_player_answer(player_id, question_id, is_correct, points), in
\* one transaction
record_player_answer(player_id, question_id, is_correct, points) ==
    LET table == StoreAnswer(answers, answer_pk + 1, player_id, question_id,
                             is_correct, points)
    IN /\ Cardinality(get_answer(answers, player_id, question_id)) <= 1
       /\ answers' = table
       /\ answer_pk' = IF get_answer(answers, player_id, question_id) = {}
                       THEN answer_pk + 1 ELSE answer_pk
       /\ score_version' = [score_version EXCEPT ![player_id] = NextVersion(@)]
       /\ recorded' = Append(recorded,
                        [player_id |-> player_id, question_id |-> question_id,
                         is_correct |-> is_correct, points |-> points])
       /\ returned' = Append(returned,
                        [player_id |-> player_id,
                         score |-> Score(table, player_id),
                         version |-> NextVersion(score_version[player_id])])
       /\ UNCHANGED <<question_answered, state_version, status_returned>>

\* ------------------------------------------------- service/game/views.py
\* the rows in the database: board b belongs to game b, player p plays in
\* game p (through its team), question q is on board q (through its
\* category)
Boards == {1, 2}
board_game_id(board_id)       == board_id
player_game_id(player_id)     == player_id
question_board_id(question_id) == question_id

\* a request body: valid says whether the serializer accepts it
Body(valid, player_id, question_id, is_correct, points, answered) ==
    [valid |-> valid, player_id |-> player_id, question_id |-> question_id,
     is_correct |-> is_correct, points |-> points, answered |-> answered]

\* a message for every room
broadcast_to_every_game(q, g, game_id, message_type, data) ==
    [c \in Channels |->
        IF \E room \in Rooms : c \in g[room]
        THEN Append(q[c], Event([c |-> "view", n |-> Len(requests) + 1],
                                [Frame("object", JStr(message_type), RAbsent)
                                     EXCEPT !.data = data],
                                RAbsent))
        ELSE q[c]]

\* broadcast_to_game: group_send to the game's room of
\* {"type": "game_message", "message": {"type": message_type, **data}}
broadcast_to_game(q, g, game_id, message_type, data) ==
    group_send(q, g, get_game_room_name(game_id),
               Event([c |-> "view", n |-> Len(requests) + 1],
                     [Frame("object", JStr(message_type), RAbsent)
                          EXCEPT !.data = data],
                     RAbsent))

\* asdict(PlayerScoreResult), asdict(QuestionStatusResult)
ScoreData(result) ==
    Data(ToString(result.player_id), ToString(result.score), Absent, Absent,
         ToString(result.version))
StatusData(result) ==
    Data(Absent, Absent, ToString(result.question_id),
         JBool(result.answered), ToString(result.version))

\* a record_answer that checks the body only
RecordAnswerStatusBodyOnly(board_id, body) ==
    IF ~body.valid THEN 400
    ELSE IF board_id \notin Boards THEN 404
    ELSE IF body.player_id \notin Players THEN 404
    ELSE IF body.question_id \notin Questions THEN 404
    ELSE 200

\* record_answer: the status of the response
RecordAnswerStatus(board_id, body) ==
    IF ~body.valid THEN 400
    ELSE IF board_id \notin Boards THEN 404
    ELSE IF body.player_id \notin Players THEN 404
    ELSE IF player_game_id(body.player_id) # board_game_id(board_id) THEN 400
    ELSE IF body.question_id \notin Questions THEN 404
    ELSE IF question_board_id(body.question_id) # board_id THEN 400
    ELSE 200

Request(view, id, body, status) ==
    [view |-> view, id |-> id, body |-> body, status |-> status]

\* POST api/board/<board_id>/answers/
record_answer(board_id, body) ==
    LET status == RecordAnswerStatus(board_id, body) IN
    /\ requests' = Append(requests, Request("record_answer", board_id, body, status))
    /\ IF status = 200
       THEN /\ record_player_answer(body.player_id, body.question_id,
                                    body.is_correct, body.points)
            /\ queue' = broadcast_to_game(queue, groups, board_game_id(board_id),
                                          "update_score",
                                          ScoreData(returned'[Len(returned')]))
       ELSE UNCHANGED <<answers, answer_pk, score_version, recorded, returned,
                        question_answered, state_version, status_returned,
                        queue>>
    /\ UNCHANGED <<conn, groups, sock, calls, txns>>

\* toggle_question: the status of the response
ToggleQuestionStatus(question_id, body) ==
    IF ~body.valid THEN 400
    ELSE IF question_id \notin Questions THEN 404
    ELSE 200

\* PATCH api/question/<question_id>/
toggle_question(question_id, body) ==
    LET status == ToggleQuestionStatus(question_id, body) IN
    /\ requests' = Append(requests, Request("toggle_question", question_id, body, status))
    /\ IF status = 200
       THEN /\ update_question_status(question_id, body.answered)
            /\ queue' = broadcast_to_game(
                            queue, groups,
                            board_game_id(question_board_id(question_id)),
                            "toggle_question",
                            StatusData(status_returned'[Len(status_returned')]))
       ELSE UNCHANGED <<answers, answer_pk, score_version, recorded, returned,
                        question_answered, state_version, status_returned,
                        queue>>
    /\ UNCHANGED <<conn, groups, sock, calls, txns>>

\* ------------------------------- record_player_answer, two calls at a time
\* Each statement of a call is one step. A statement reads the committed
\* rows and the call's own write; a write to a row, or an insert for a
\* (player, question) pair, waits while another transaction has an
\* uncommitted write to that row or pair (row lock, unique index).
OtherCalls(t) == Transactions \ {t}

\* the call begins: transaction.atomic enters
txn_begin(t, player_id, question_id, is_correct, points) ==
    /\ txns.call[t].pc = "idle"
    /\ txns' = [txns EXCEPT
          !.stored = IF \A o \in OtherCalls(t) : txns.call[o].pc = "idle"
                     THEN answers ELSE @,
          !.version = IF \A o \in OtherCalls(t) : txns.call[o].pc = "idle"
                      THEN score_version[player_id] ELSE @,
          !.call[t] = TxnCall("get", player_id, question_id, is_correct,
                              points, {}, NoWrite, <<>>)]
    /\ UNCHANGED <<answers, answer_pk, score_version, recorded, returned,
                   question_answered, state_version, status_returned, requests>>

\* PlayerAnswer.objects.get(player_id=..., question_id=...)
txn_get(t) ==
    LET call == txns.call[t] IN
    /\ call.pc = "get"
    /\ txns' = [txns EXCEPT !.call[t].pc = "write",
                            !.call[t].found =
                                get_answer(answers, call.player_id, call.question_id)]
    /\ UNCHANGED <<answers, answer_pk, score_version, recorded, returned,
                   question_answered, state_version, status_returned, requests>>

\* another transaction has an uncommitted write to the row with this id
RowLocked(t, id) ==
    \E o \in OtherCalls(t) : \E a \in txns.call[o].pending.rows : a.id = id

\* another transaction has an uncommitted insert for this pair
PairLocked(t, player_id, question_id) ==
    \E o \in OtherCalls(t) :
        /\ txns.call[o].pending.op = "insert"
        /\ get_answer(txns.call[o].pending.rows, player_id, question_id) # {}

\* unique_together = ["player", "question"]: an insert for a pair that has
\* a committed row raises IntegrityError
UniqueViolated(table, player_id, question_id) ==
    get_answer(table, player_id, question_id) # {}

\* INSERT of a row: waits for an uncommitted insert of the pair, then
\* raises or writes
txn_insert(t, row) ==
    /\ ~PairLocked(t, row.player, row.question)
    /\ IF UniqueViolated(answers, row.player, row.question)
       THEN /\ txns' = [txns EXCEPT !.call[t].pc = "raised"]
            /\ UNCHANGED answer_pk
       ELSE /\ txns' = [txns EXCEPT !.call[t].pc = "finish",
                                    !.call[t].pending = Write("insert", {row})]
            /\ answer_pk' = IF row.id > answer_pk THEN row.id ELSE answer_pk

\* the statement of the try block the call runs for what its get found:
\* create() on DoesNotExist, delete() on a change of correctness, save()
\* on a change of points
txn_write(t) ==
    LET call == txns.call[t] IN
    /\ call.pc = "write"
    /\ IF call.found = {}
       THEN txn_insert(t, [id |-> answer_pk + 1, player |-> call.player_id,
                           question |-> call.question_id,
                           is_correct |-> call.is_correct,
                           points |-> call.points])
       ELSE LET answer == CHOOSE a \in call.found : TRUE
                now    == {a \in answers : a.id = answer.id}
            IN
            IF CorrectnessChanged(answer, call.is_correct)
            THEN \* DELETE ... WHERE id = answer.id
                 /\ ~RowLocked(t, answer.id)
                 /\ txns' = [txns EXCEPT
                       !.call[t].pc = "finish",
                       !.call[t].pending =
                           IF now = {} THEN NoWrite ELSE Write("delete", now)]
                 /\ UNCHANGED answer_pk
            ELSE IF answer.points # call.points
            THEN \* save(): UPDATE ... WHERE id = answer.id, and an INSERT
                 \* when the UPDATE matched no row
                 /\ ~RowLocked(t, answer.id)
                 /\ IF now # {}
                    THEN /\ txns' = [txns EXCEPT
                               !.call[t].pc = "finish",
                               !.call[t].pending =
                                   Write("update",
                                         {[answer EXCEPT !.points = call.points]})]
                         /\ UNCHANGED answer_pk
                    ELSE txn_insert(t, [answer EXCEPT !.points = call.points])
            ELSE /\ txns' = [txns EXCEPT !.call[t].pc = "finish"]
                 /\ UNCHANGED answer_pk
    /\ UNCHANGED <<answers, score_version, recorded, returned,
                   question_answered, state_version, status_returned, requests>>

\* the committed rows with a transaction's write applied
Applied(table, pending) ==
    {a \in table : \A w \in pending.rows : w.id # a.id}
        \cup (IF pending.op = "delete" THEN {} ELSE pending.rows)

\* the rest of the call: the player row is locked and its version
\* incremented, the score is summed over the rows the transaction sees, the
\* result is returned and the transaction commits
txn_finish(t) ==
    LET call  == txns.call[t]
        table == Applied(answers, call.pending)
    IN
    /\ call.pc = "finish"
    /\ answers' = table
    /\ score_version' =
          [score_version EXCEPT ![call.player_id] = NextVersion(@)]
    /\ txns' = [txns EXCEPT
          !.call[t].pc = "returned",
          !.call[t].pending = NoWrite,
          !.call[t].result =
              <<[player_id |-> call.player_id,
                 score |-> Score(table, call.player_id),
                 version |-> NextVersion(score_version[call.player_id])]>>]
    /\ UNCHANGED <<answer_pk, recorded, returned, question_answered,
                   state_version, status_returned, requests>>

\* ------------------------------------------------------------- inputs
\* the next channel name the transport hands out
NextChannel == ChannelName(Cardinality(Opened) + 1)

\* query strings: <<client_type, client_id>>, None for a missing parameter
Query(ct, cid) == <<ct, cid>>
QueriesAll == {Query(None, None), Query(None, "b1"), Query("buzzer", None),
               Query("buzzer", "b1"), Query("osc", "b1")}
QueriesPlain == {Query(None, None)}
QueriesStatus == {Query(None, None), Query(None, "b1"), Query("buzzer", None),
                  Query("buzzer", "b1")}

TypeNonStrings == {JVal("number", "5"), JNull, JVal("list", "[]"),
                   JVal("object", "{}")}

\* frames without a (usable) recipient
FramesPlain ==
    \* mappings whose type is not a string
    {Frame("object", t, RAbsent) : t \in TypeNonStrings}
    \* well-formed messages: no recipient, null, empty mapping
    \cup {Frame("object", JStr("select_question"), r) :
            r \in {RAbsent, RNull, RDict(Absent, Absent, Absent, FALSE)}}

\* recipient values that are not mappings
RecipientNonDicts ==
    {RScalar("string", ""), RScalar("string", "not-a-dict"),
     RScalar("number", "0"), RScalar("number", "5"),
     RScalar("list", "[]"), RScalar("list", "[1]")}

\* recipient mappings a client may send
RecipientDicts ==
    {RDict(ch, cid, ct, FALSE) :
        ch \in {Absent} \cup Opened,
        cid \in {Absent, "b1"},
        ct \in {Absent, "buzzer", None}}
    \cup {RDict(Absent, Absent, Absent, TRUE)}

\* one malformed payload of each kind, and one well-formed message
FramesDrop ==
    {Frame(j, JAbsent, RAbsent) : j \in {"string", "number", "list"}}
    \cup {Frame("object", JAbsent, RAbsent),
          Frame("object", JAbsent, RDict(Absent, Absent, "buzzer", FALSE)),
          Frame("object", JStr("select_question"), RAbsent)}

FramesShape ==
    {Frame("object", JStr("test"), r) : r \in {RAbsent} \cup RecipientNonDicts}

FramesUnicast ==
    {Frame("object", JStr("pong"), RDict(ch, Absent, Absent, FALSE)) :
        ch \in Opened}

FramesTargeted ==
    {Frame("object", JStr("command"), r) :
        r \in {d \in RecipientDicts : d.client_id # Absent \/ d.client_type # Absent}}

FramesStatus == {Frame("object", JStr("select_question"), RAbsent)}

\* no connection yet
RouterInit ==
    /\ conn = [c \in Channels |-> NewConn]
    /\ groups = [r \in Rooms |-> {}]
    /\ queue = [c \in Channels |-> <<>>]
    /\ sock = [c \in Channels |-> <<>>]
    /\ calls = [c \in Channels |-> <<>>]

Init ==
    RouterInit /\ ClientInit /\ BridgeIdle /\ ScannerInit /\ ServicesInit

Connect(Q, nc) ==
    \E g \in Games, q \in Q :
        /\ Cardinality(Opened) < nc
        /\ connect(NextChannel, g, q[1], q[2])
        /\ UNCHANGED notRouter

Disconnect == \E c \in Channels : disconnect(c) /\ UNCHANGED notRouter

ReceiveJson(F, nr) ==
    \E c \in Channels : \E content \in F :
        /\ Relays < nr
        /\ receive_json(c, content)
        /\ UNCHANGED notRouter

GameMessage == \E c \in Channels : game_message(c) /\ UNCHANGED notRouter

\* broadcasts and malformed types among untyped connections
NextPlain ==
    \/ Connect(QueriesPlain, MaxConns)
    \/ Disconnect
    \/ ReceiveJson(FramesPlain, MaxRelays)
    \/ GameMessage
SpecPlain == Init /\ [][NextPlain]_vars

\* a dropped frame followed by another frame
NextDrop ==
    \/ Connect(QueriesPlain, FewConns)
    \/ Disconnect
    \/ ReceiveJson(FramesDrop, MoreRelays)
    \/ GameMessage
SpecDrop == Init /\ [][NextDrop]_vars

\* recipient values of every shape
NextShape ==
    \/ Connect(QueriesPlain, MaxConns)
    \/ Disconnect
    \/ ReceiveJson(FramesShape, MaxRelays)
    \/ GameMessage
SpecShape == Init /\ [][NextShape]_vars

\* a recipient naming one channel
NextUnicast ==
    \/ Connect(QueriesPlain, MaxConns)
    \/ Disconnect
    \/ ReceiveJson(FramesUnicast, MaxRelays)
    \/ GameMessage
SpecUnicast == Init /\ [][NextUnicast]_vars

\* recipient mappings, typed and untyped connections
NextTargeted ==
    \/ Connect(QueriesAll, FewConns)
    \/ Disconnect
    \/ ReceiveJson(FramesTargeted, MaxRelays)
    \/ GameMessage
SpecTargeted == Init /\ [][NextTargeted]_vars

\* joins and leaves of typed and untyped connections
NextStatus ==
    \/ Connect(QueriesStatus, MaxConns)
    \/ Disconnect
    \/ ReceiveJson(FramesStatus, MaxRelays)
    \/ GameMessage
SpecStatus == Init /\ [][NextStatus]_vars

\* ---------------------------------------------- handlers step by step
QueriesInterleaved == {Query(None, None), Query("buzzer", "b1")}
FramesInterleaved  == FramesStatus \cup FramesUnicast

ConnectJoin(Q, nc) ==
    \E g \in Games, q \in Q :
        /\ Cardinality(Opened) < nc
        /\ connect_join(NextChannel, g, q[1], q[2])
        /\ UNCHANGED notRouter

ConnectAnnounce    == \E c \in Channels : connect_announce(c) /\ UNCHANGED notRouter
DisconnectLeave    == \E c \in Channels : disconnect_leave(c) /\ UNCHANGED notRouter
DisconnectAnnounce == \E c \in Channels : disconnect_announce(c) /\ UNCHANGED notRouter

\* joins, leaves and relays interleaved at the handlers' awaits
NextInterleaved ==
    \/ ConnectJoin(QueriesInterleaved, FewConns)
    \/ ConnectAnnounce
    \/ DisconnectLeave
    \/ DisconnectAnnounce
    \/ ReceiveJson(FramesInterleaved, MoreRelays)
    \/ GameMessage
SpecInterleaved == Init /\ [][NextInterleaved]_vars

\* ------------------------------------------------------ the client's steps
\* frames the server or anything else may put on the socket
ClientFrames ==
    {Msg("object", "ping", "12345", "server", Absent),
     Msg("object", "ping", Absent, Absent, Absent),
     Msg("object", "toggle_buzzers", Absent, "server", Absent),
     Msg("object", Absent, Absent, Absent, Absent),
     Msg("list", Absent, Absent, Absent, Absent),
     Msg("text", Absent, Absent, Absent, Absent)}
FewFrames ==
    {Msg("object", "ping", "12345", "server", Absent),
     Msg("object", "toggle_buzzers", Absent, "server", Absent)}

\* messages the application sends
AppMessages == {Msg("object", "buzzer_pressed", Absent, Absent, Absent)}

\* how the iteration over a closed socket ends
LoopExits == {"none", "ConnectionClosed"}

Run == run /\ UNCHANGED notClient

Stop ==
    /\ pc \notin {"created", "returned", "raised"}
    /\ ~Stopped
    /\ stop
    /\ UNCHANGED notClient

ConnectFails(nf) == Failures < nf /\ connect_fails /\ UNCHANGED notClient
ConnectOk        == connect_ok /\ UNCHANGED notClient
SetupDone        == setup_done /\ UNCHANGED notClient
PeerCloses(nf)   == Failures < nf /\ peer_closes /\ UNCHANGED notClient
LoopEnds(E)      == \E exc \in E : loop_ends(exc) /\ UNCHANGED notClient
TeardownDone     == teardown_done /\ UNCHANGED notClient
SleepDone        == sleep_done /\ UNCHANGED notClient

AppSend(ns) ==
    \E m \in AppMessages :
        /\ Sends < ns
        /\ app_send(m)
        /\ UNCHANGED notClient

RecvFrame(F, nfr, nf) ==
    \E f \in F, raises \in BOOLEAN, dies \in BOOLEAN :
        /\ Frames < nfr
        /\ raises => (f.j = "object" /\ ~IsPing(f))
        /\ dies => (IsPing(f) /\ Failures < nf)
        /\ recv_frame(f, raises, dies)
        /\ UNCHANGED notClient

\* one failure after the other, with connections that hold for a while
NextBackoffRuns ==
    \/ Run
    \/ ConnectFails(ManyFailures)
    \/ ConnectOk
    \/ SetupDone
    \/ PeerCloses(ManyFailures)
    \/ LoopEnds({"ConnectionClosed"})
    \/ TeardownDone
    \/ SleepDone
SpecBackoff == Init /\ [][NextBackoffRuns]_vars

\* the whole life of a client: failures, traffic both ways, stop()
NextLifecycle ==
    \/ Run
    \/ Stop
    \/ ConnectFails(FewFailures)
    \/ ConnectOk
    \/ SetupDone
    \/ PeerCloses(FewFailures)
    \/ LoopEnds(LoopExits)
    \/ TeardownDone
    \/ SleepDone
    \/ AppSend(OneSend)
    \/ RecvFrame(FewFrames, OneFrame, FewFailures)
SpecLifecycle == Init /\ [][NextLifecycle]_vars

\* the steps the event loop takes by itself: an attempt ends one way or the
\* other, the hooks return, a closed socket ends the iteration, the sleep ends
ClientProgress ==
    \/ ConnectFails(FewFailures)
    \/ ConnectOk
    \/ SetupDone
    \/ LoopEnds(LoopExits)
    \/ TeardownDone
    \/ SleepDone
FairLifecycle == SpecLifecycle /\ WF_vars(ClientProgress)

\* frames of every kind and sends, over a connection that may be lost
NextTraffic ==
    \/ Run
    \/ ConnectFails(OneFailure)
    \/ ConnectOk
    \/ SetupDone
    \/ PeerCloses(OneFailure)
    \/ LoopEnds(LoopExits)
    \/ TeardownDone
    \/ SleepDone
    \/ AppSend(MaxSends)
    \/ RecvFrame(ClientFrames, MaxFrames, OneFailure)
SpecTraffic == Init /\ [][NextTraffic]_vars

\* ------------------------------------------------------- the bridge's steps
\* destinations as in the configuration of the tests, and variants
DestEnable  == Dest(Absent, Absent, "/buzzers/enable", TRUE,
                    <<Arg("enabled", "int", VNone)>>)
DestTest    == Dest(Absent, Absent, "/test", TRUE,
                    <<Arg("value1", None, VNone),
                      Arg("value2", "int", VNone),
                      Arg("missing", None, VInt(42))>>)
DestPlain   == Dest("10.0.0.2", "9000", "/any", FALSE, <<>>)
DestStrict  == Dest("10.0.0.2", "9000", "/strict", TRUE,
                    <<Arg("value1", None, VNone)>>)
DestTyped   == Dest("10.0.0.2", "9000", "/typed", TRUE,
                    <<Arg("missing", "int", VStr("7")),
                      Arg("value2", "string", VBool(TRUE)),
                      Arg("value1", "float", VFloat(150))>>)

\* outgoing rules
RulePool ==
    {Rule("toggle_buzzers", Conds(VBool(TRUE), VAbsent, VAbsent), <<DestEnable>>),
     Rule("toggle_buzzers", Conds(VBool(TRUE), VStr("hello"), VAbsent),
          <<DestPlain>>),
     Rule("toggle_buzzers", Conds(VNone, VAbsent, VAbsent), <<DestPlain>>),
     Rule("toggle_buzzers", NoConds, <<DestStrict, DestPlain>>),
     Rule("test_message", NoConds, <<DestTest>>),
     Rule("test_message", NoConds, <<DestTyped, DestPlain>>)}

DefaultDests == {NoDest, Dest("192.168.1.100", "53000", Absent, FALSE, <<>>)}

BridgeConfigs ==
    {[default_destination |-> dd, outgoing |-> rs, incoming |-> <<>>] :
        dd \in DefaultDests,
        rs \in UNION {[1..k -> RulePool] : k \in 1..MaxRules}}

BridgeMessages ==
    {BMsg(t, e, v1, v2) :
        t \in {"toggle_buzzers", "test_message"},
        e \in {VAbsent, VBool(TRUE), VBool(FALSE), VInt(1)},
        v1 \in {VAbsent, VStr("hello")},
        v2 \in {VAbsent, VFloat(314)}}

\* a bridge started with one of the configurations
BridgeInit ==
    /\ RouterInit /\ ClientInit /\ ScannerInit /\ ServicesInit
    /\ config \in BridgeConfigs
    /\ net \in [UdpPeers -> NetOutcomes]
    /\ BridgeFresh

\* the client hands a message to handle_message
HandleMessage(M, nm) ==
    \E message \in M :
        /\ Len(handled) < nm
        /\ handled' = Append(handled, message)
        /\ LET entries == handle_message(config, message, Len(handled) + 1, 1)
               after   == get_osc_clients(osc_clients, clients_got, entries, 1)
           IN /\ udp' = udp \o entries
              /\ osc_clients' = after.clients
              /\ clients_got' = after.log
        /\ UNCHANGED <<config, net, tasks, osc_in, ws, conversions, notBridge>>

NextBridge == HandleMessage(BridgeMessages, MaxMessages)
SpecBridge == BridgeInit /\ [][NextBridge]_vars


\* incoming rules: the rule of the tests, one more for its address, one
\* for another address
IRulePool ==
    {IRule("/buzzer/press", "buzzer_pressed",
           <<IArg(0, "buzzerId", "int"), IArg(1, "pressure", "float")>>),
     IRule("/buzzer/press", "buzzer_seen", <<IArg(0, "buzzerId", None)>>),
     IRule("/fader", "fader_moved", <<IArg(0, "pressure", "bool")>>),
     IRule("/go", "go", <<>>)}

IncomingConfigs ==
    {[default_destination |-> NoDest, outgoing |-> <<>>, incoming |-> rs] :
        rs \in UNION {[1..k -> IRulePool] : k \in 1..MaxRules}}

\* OSC events: an address and up to two arguments
OscValues == {VInt(5), VFloat(75), VStr("abc")}
OscEvents ==
    {[address |-> a, args |-> as] :
        a \in {"/buzzer/press", "/fader", "/unknown"},
        as \in UNION {[1..k -> OscValues] : k \in 0..2}}

\* a bridge started with incoming rules only
IncomingInit ==
    /\ RouterInit /\ ClientInit /\ ScannerInit /\ ServicesInit
    /\ config \in IncomingConfigs
    /\ net = NetUp
    /\ BridgeFresh

\* the OSC server hands an event to _handle_osc_message
HandleOsc(E, ne) ==
    \E ev \in E :
        /\ Len(osc_in) < ne
        /\ osc_in' = Append(osc_in, ev)
        /\ ws' = ws \o handle_osc_message(config, ev.address, ev.args,
                                          Len(osc_in) + 1, 1)
        /\ UNCHANGED <<config, handled, udp, net, osc_clients, clients_got,
                       tasks, conversions, notBridge>>

NextIncoming == HandleOsc(OscEvents, MaxEvents)
SpecIncoming == IncomingInit /\ [][NextIncoming]_vars

\* messages for the runs in which handle_message calls overlap
TaskMessages ==
    {BMsg(t, VBool(TRUE), v1, VFloat(314)) :
        t \in {"toggle_buzzers", "test_message"},
        v1 \in {VAbsent, VStr("hello")}}

\* handle_message is called with a message while other calls are under way
StartMessage(M, nm) ==
    \E message \in M :
        /\ Len(handled) < nm
        /\ handled' = Append(handled, message)
        /\ tasks' = tasks \cup {[n |-> Len(handled) + 1, r |-> 1]}
        /\ UNCHANGED <<config, udp, net, osc_clients, clients_got, osc_in,
                       ws, conversions, notBridge>>

\* handle_message: one turn of the loop over the rules, up to the next
\* await, for one of the calls under way
RuleStep ==
    \E t \in tasks :
        LET message == handled[t.n]
            entries == IF t.r > Len(config.outgoing) THEN <<>>
                       ELSE IF config.outgoing[t.r].websocket_type = message.type
                       THEN send_osc_from_websocket(config, message,
                                config.outgoing[t.r], t.n, t.r)
                       ELSE <<>>
            after   == get_osc_clients(osc_clients, clients_got, entries, 1)
        IN /\ udp' = udp \o entries
           /\ osc_clients' = after.clients
           /\ clients_got' = after.log
           /\ tasks' = (tasks \ {t}) \cup
                         (IF t.r < Len(config.outgoing) /\ ~Escaped(entries)
                          THEN {[n |-> t.n, r |-> t.r + 1]} ELSE {})
           /\ UNCHANGED <<config, handled, net, osc_in, ws, conversions,
                          notBridge>>

NextTasks == StartMessage(TaskMessages, TwoMessages) \/ RuleStep
SpecTasks == BridgeInit /\ [][NextTasks]_vars

\* ------------------------------------------------------ the scanner's steps
RunAsync == run_async /\ UNCHANGED notScanner
RunTop == run_top /\ UNCHANGED notScanner
RunParked == run_parked /\ UNCHANGED notScanner
RunCheck == run_check /\ UNCHANGED notScanner
RunInput == (\E pressed \in BOOLEAN : run_input(pressed)) /\ UNCHANGED notScanner
RunLatch == run_latch /\ UNCHANGED notScanner
RunCall == run_call /\ UNCHANGED notScanner
ToggleBuzzers(nt) ==
    (\E e \in BOOLEAN : toggle_buzzers(e, nt)) /\ UNCHANGED notScanner
ToggleClear(OK, nl) ==
    (\E ok \in OK : toggle_clear(ok, nl)) /\ UNCHANGED notScanner
SetLogLevel ==
    (\E level \in {"DEBUG", "INFO", "LOUD"} : set_log_level(level))
        /\ UNCHANGED notScanner
ConnectionLost(nl) == connection_lost(nl) /\ UNCHANGED notScanner
MessageError(nl) == message_error(nl) /\ UNCHANGED notScanner
Reconnect(OK) == (\E ok \in OK : reconnect(ok)) /\ UNCHANGED notScanner
HandleBuzzerPress ==
    (\E ok \in BOOLEAN : handle_buzzer_press(ok)) /\ UNCHANGED notScanner

\* the scanner thread and the client's handling of toggle_buzzers, one step
\* at a time, on a connection that is lost and made again
NextScanner ==
    \/ RunAsync
    \/ RunTop
    \/ RunParked
    \/ RunCheck
    \/ RunInput
    \/ RunLatch
    \/ RunCall
    \/ ToggleBuzzers(MaxToggles)
    \/ ToggleClear({TRUE}, MaxLosses)
    \/ ConnectionLost(MaxLosses)
    \/ Reconnect({TRUE})
SpecScanner == Init /\ [][NextScanner]_vars

\* the scanner thread and the client's event loop, one step at a time:
\* every message, sends and connects that fail, and the scheduled presses
NextListener ==
    \/ RunAsync
    \/ RunTop
    \/ RunParked
    \/ RunCheck
    \/ RunInput
    \/ RunLatch
    \/ RunCall
    \/ ToggleBuzzers(FewToggles)
    \/ ToggleClear(BOOLEAN, MaxLosses)
    \/ SetLogLevel
    \/ ConnectionLost(MaxLosses)
    \/ MessageError(MaxLosses)
    \/ Reconnect(BOOLEAN)
    \/ HandleBuzzerPress
SpecListener == Init /\ [][NextListener]_vars

\* ------------------------------------------------------ the services' steps
\* points given to a call: none, or a number
PointsGiven == {NoPoints, 0, 150}

RecordPlayerAnswer(nc) ==
    /\ Len(recorded) + Len(status_returned) < nc
    /\ \E player_id \in Players, question_id \in Questions,
          is_correct \in BOOLEAN, points \in PointsGiven :
           record_player_answer(player_id, question_id, is_correct, points)
    /\ UNCHANGED <<requests, txns>>
    /\ UNCHANGED notServices

UpdateQuestionStatus(nc) ==
    /\ Len(recorded) + Len(status_returned) < nc
    /\ \E question_id \in Questions, answered \in BOOLEAN :
           update_question_status(question_id, answered)
    /\ UNCHANGED <<requests, txns>>
    /\ UNCHANGED notServices

NextServices == RecordPlayerAnswer(MaxCalls) \/ UpdateQuestionStatus(MaxCalls)
SpecServices == Init /\ [][NextServices]_vars

\* ids a request names: the rows there are, and one there is not
RequestIds == {1, 2, 3}

\* bodies posted to record_answer: one the serializer rejects, and valid ones
RecordBodies ==
    {Body(FALSE, 1, 1, TRUE, NoPoints, FALSE)}
    \cup {Body(TRUE, p, q, ic, pts, FALSE) :
            p \in RequestIds, q \in RequestIds, ic \in BOOLEAN,
            pts \in {150}}

\* bodies sent to toggle_question
ToggleBodies ==
    {Body(v, 0, 0, FALSE, NoPoints, a) : v \in BOOLEAN, a \in BOOLEAN}

RecordAnswer(nr) ==
    /\ Len(requests) < nr
    /\ \E board_id \in RequestIds, body \in RecordBodies :
           record_answer(board_id, body)
    /\ UNCHANGED <<clientVars, bridgeVars, scannerVars>>

ToggleQuestion(nr) ==
    /\ Len(requests) < nr
    /\ \E question_id \in RequestIds, body \in ToggleBodies :
           toggle_question(question_id, body)
    /\ UNCHANGED <<clientVars, bridgeVars, scannerVars>>

\* requests to the views while clients of two games connect and receive
NextViews ==
    \/ Connect(QueriesPlain, FewConns)
    \/ Disconnect
    \/ GameMessage
    \/ RecordAnswer(MaxRequests)
    \/ ToggleQuestion(MaxRequests)
SpecViews == Init /\ [][NextViews]_vars

\* a call made on its own before the concurrent ones
RecordBefore(nc) ==
    /\ \A t \in Transactions : txns.call[t].pc = "idle"
    /\ RecordPlayerAnswer(nc)

\* the player and question the concurrent calls are about
TxnPlayer   == CHOOSE p \in Players : \A o \in Players : p <= o
TxnQuestion == CHOOSE q \in Questions : \A o \in Questions : q <= o

TxnBegin ==
    /\ \E t \in Transactions, is_correct \in BOOLEAN, points \in PointsGiven :
           txn_begin(t, TxnPlayer, TxnQuestion, is_correct, points)
    /\ UNCHANGED notServices
TxnGet    == (\E t \in Transactions : txn_get(t)) /\ UNCHANGED notServices
TxnWrite  == (\E t \in Transactions : txn_write(t)) /\ UNCHANGED notServices
TxnFinish == (\E t \in Transactions : txn_finish(t)) /\ UNCHANGED notServices

\* one call on its own, then two calls for one player and question at the
\* same time
NextConcurrent ==
    \/ RecordBefore(OneCall)
    \/ TxnBegin
    \/ TxnGet
    \/ TxnWrite
    \/ TxnFinish
SpecConcurrent == Init /\ [][NextConcurrent]_vars

\* values, declared types and directions to convert
ConvertValues ==
    {VNone, VBool(TRUE), VBool(FALSE), VInt(0), VInt(1), VInt(-3),
     VFloat(314), VFloat(50), VFloat(51), VFloat(-250), VFloat(30),
     VStr(""), VStr("abc")}
ConvertTypes == OSCTypes \cup {None, "blob", "INT"}

\* _convert_type called on a value
ConvertValue(V, T, nc) ==
    \E value \in V, target_type \in T, direction \in Directions :
        /\ Len(conversions) < nc
        /\ conversions' =
              Append(conversions,
                     [value |-> value, type |-> target_type,
                      direction |-> direction,
                      result |-> convert_type(value, target_type, direction)])
        /\ UNCHANGED <<config, handled, udp, net, osc_clients, clients_got,
                       tasks, osc_in, ws, notBridge>>

NextConvert == ConvertValue(ConvertValues, ConvertTypes, MaxConversions)
SpecConvert == Init /\ [][NextConvert]_vars
\* ============================================================== properties
\* copies of the event sent by call id: waiting on d's channel, written to
\* d's socket
QCopies(d, id) == Cardinality({i \in DOMAIN queue[d] : queue[d][i].id = id})
SCopies(d, id) == Cardinality({i \in DOMAIN sock[d] : sock[d][i].id = id})
Copies(d, id)  == QCopies(d, id) + SCopies(d, id)

\* the calls made so far: <<channel name, index>> pairs
Made == UNION {{[c |-> c, n |-> n] : n \in DOMAIN calls[c]} : c \in Channels}
TheCall(id) == calls[id.c][id.n]
RelayIds == {id \in Made : TheCall(id).op = "receive_json"}

\* every frame written to a socket is the message of its call, unchanged
FaithfulCopies(id) ==
    \A d \in Channels : \A i \in DOMAIN sock[d] :
        sock[d][i].id = id => sock[d][i].message = TheCall(id).content

\* the shapes of frame the statements speak of
IsMessage(f)     == f.j = "object" /\ f.type.j = "string"
HasNoRecipient(f) == f.recipient.j = "absent"
IsChannelOnly(r) ==
    /\ r.j = "object" /\ r.channel_id # Absent
    /\ r.client_id = Absent /\ r.client_type = Absent /\ ~r.other

\* C1: a message with no recipient relayed by a connection of room R puts
\* exactly one copy on the way to every connection that is in R at that
\* moment, the sender included, no copy is lost or doubled on its way to the
\* socket, and no connection outside R gets one.
C1_BroadcastExactlyOnce ==
    \A id \in RelayIds :
        LET k == TheCall(id) IN
        (IsMessage(k.content) /\ HasNoRecipient(k.content)) =>
            /\ id.c \in k.members
            /\ \A d \in Channels :
                   Copies(d, id) = IF d \in k.members THEN 1 ELSE 0
            /\ FaithfulCopies(id)

\* C1 witness: a broadcast has been written to the sockets of the sender and
\* of another member of its room, while a connection of another room has
\* been handed nothing.
C1_Witness ==
    \E id \in RelayIds : \E d, e \in Channels :
        /\ IsMessage(TheCall(id).content) /\ HasNoRecipient(TheCall(id).content)
        /\ d # id.c /\ d \in TheCall(id).members
        /\ SCopies(d, id) = 1 /\ SCopies(id.c, id) = 1
        /\ e \in TheCall(id).live /\ e \notin TheCall(id).members
        /\ conn[e].status = "open" /\ queue[e] = <<>> /\ sock[e] = <<>>

\* C2: a message whose recipient is exactly {channel_id: X} is handed to
\* the connection with channel name X and to no other connection (the
\* sender gets none unless it is X); it is written to X's socket only if X
\* was live, and if X was gone it is written to no socket at all.
C2_UnicastOnlyTarget ==
    \A id \in RelayIds :
        LET k == TheCall(id)
            X == k.content.recipient.channel_id
        IN (IsMessage(k.content) /\ IsChannelOnly(k.content.recipient)) =>
            /\ Copies(X, id) = 1
            /\ \A d \in Channels : d # X => SCopies(d, id) = 0
            /\ X \notin k.live => \A d \in Channels : SCopies(d, id) = 0
            /\ FaithfulCopies(id)

\* C2 witness: a unicast from one connection has reached the socket of
\* another one, with a third connection of the sender's room handed nothing.
C2_Witness ==
    \E id \in RelayIds : \E d \in Channels :
        LET k == TheCall(id)
            X == k.content.recipient.channel_id
        IN /\ IsMessage(k.content) /\ IsChannelOnly(k.content.recipient)
           /\ X # id.c /\ SCopies(X, id) = 1
           /\ d \notin {X, id.c} /\ d \in k.members
           /\ X \in k.members
           /\ conn[d].status = "open" /\ Copies(d, id) = 0

\* every key present in the recipient equals the connection's own attribute
MatchesAll(d, r) ==
    /\ r.channel_id # Absent => d = r.channel_id
    /\ r.client_id # Absent => conn[d].client_id = r.client_id
    /\ r.client_type # Absent => conn[d].client_type = r.client_type

NamesClient(r) ==
    r.j = "object" /\ (r.client_id # Absent \/ r.client_type # Absent)

\* the part of C3 that holds: the room members matching every key get
\* exactly one copy, every other connection gets nothing (sender included)
FilteredToMatching(id) ==
    LET k == TheCall(id)
        r == k.content.recipient
    IN /\ \A d \in Channels :
            /\ d \notin k.members => Copies(d, id) = 0
            /\ (d \in k.members /\ MatchesAll(d, r)) => Copies(d, id) = 1
            /\ (d \in k.members /\ ~MatchesAll(d, r)) =>
                   (SCopies(d, id) = 0 /\ QCopies(d, id) <= 1)
       /\ FaithfulCopies(id)

HasStringSelectors(r) ==
    r.client_id # None /\ r.client_type # None

\* C3 as stated (selectors with string values): delivery to exactly the
\* matching connections of the room, and never to a connection that has no
\* client_type.
C3_FilteredAndNeverUntyped ==
    \A id \in RelayIds :
        LET k == TheCall(id) IN
        (IsMessage(k.content) /\ NamesClient(k.content.recipient)
            /\ HasStringSelectors(k.content.recipient)) =>
            /\ FilteredToMatching(id)
            /\ \A d \in Channels : conn[d].client_type = None => SCopies(d, id) = 0

\* C3 amended: delivery to exactly the connections of the room for which
\* every key present in the recipient equals the connection's attribute; a
\* connection without client_type gets nothing when the recipient names a
\* client_type string (it can match a recipient of client_id alone).
C3_FilteredToMatching ==
    \A id \in RelayIds :
        LET k == TheCall(id)
            r == k.content.recipient
        IN (IsMessage(k.content) /\ NamesClient(r)) =>
            /\ FilteredToMatching(id)
            /\ \A d \in Channels :
                 (conn[d].client_type = None /\ r.client_type \notin {Absent, None})
                    => SCopies(d, id) = 0

\* C3 witness: a message for {client_type, client_id} sent by a connection
\* that matches only the type has reached the socket of the connection that
\* matches both, and the sender has discarded its own copy.
C3_Witness ==
    \E id \in RelayIds : \E d \in Channels :
        LET k == TheCall(id)
            r == k.content.recipient
        IN /\ IsMessage(k.content)
           /\ r.j = "object" /\ r.client_type = "buzzer" /\ r.client_id = "b1"
           /\ d # id.c /\ SCopies(d, id) = 1
           /\ conn[id.c].client_type = "buzzer" /\ conn[id.c].client_id # "b1"
           /\ conn[id.c].status = "open" /\ Copies(id.c, id) = 0

\* C4: a message whose recipient is present but is a string, a number or a
\* list (empty and zero values included) is dropped: no copy for anybody.
C4_NonMappingRecipientDropped ==
    \A id \in RelayIds :
        LET k == TheCall(id) IN
        (IsMessage(k.content) /\ k.content.recipient.j \in {"string", "number", "list"}) =>
            \A d \in Channels : SCopies(d, id) = 0

\* the payloads the first guard is about
IsMalformed(f) == f.j # "object" \/ f.type.j = "absent"

BroadcastReachesRoom(id) ==
    /\ id.c \in TheCall(id).members
    /\ \A d \in Channels : Copies(d, id) = IF d \in TheCall(id).members THEN 1 ELSE 0

\* the next call of the same consumer
NextCall(id) == [c |-> id.c, n |-> id.n + 1]

\* C5: a payload that is not a mapping, or a mapping without a type, is
\* dropped: nothing is put on any channel or socket for it, the sender is
\* still connected and in its room afterwards, and the sender's next
\* message without recipient reaches its whole room.
C5_MalformedDropped ==
    \A id \in RelayIds :
        LET k == TheCall(id) IN
        IsMalformed(k.content) =>
            /\ \A d \in Channels : Copies(d, id) = 0
            /\ id.c \in k.members
            /\ id.c \in groups[conn[id.c].room_group_name] \/ conn[id.c].status = "closed"
            /\ (/\ NextCall(id) \in RelayIds
                /\ IsMessage(TheCall(NextCall(id)).content)
                /\ HasNoRecipient(TheCall(NextCall(id)).content))
               => BroadcastReachesRoom(NextCall(id))

\* C5 witness: after a dropped payload the same connection has sent a
\* message that reached its own socket and that of another connection.
C5_Witness ==
    \E id \in RelayIds : \E d \in Channels :
        /\ IsMalformed(TheCall(id).content)
        /\ NextCall(id) \in RelayIds
        /\ IsMessage(TheCall(NextCall(id)).content)
        /\ d # id.c
        /\ SCopies(d, NextCall(id)) = 1 /\ SCopies(id.c, NextCall(id)) = 1
        /\ \A e \in Channels : Copies(e, id) = 0

\* C6: a mapping whose type is present but is not a string is dropped: no
\* connection receives it.
C6_NonStringTypeDropped ==
    \A id \in RelayIds :
        LET k == TheCall(id) IN
        (k.content.j = "object" /\ k.content.type.j \notin {"absent", "string"}) =>
            \A d \in Channels : SCopies(d, id) = 0

\* C7 as stated: every delivered copy of a message without recipient
\* carries the channel name of the connection that sent it.
C7_CopyCarriesSenderChannel ==
    \A id \in RelayIds :
        (IsMessage(TheCall(id).content) /\ HasNoRecipient(TheCall(id).content)) =>
            \A d \in Channels : \A i \in DOMAIN sock[d] :
                sock[d][i].id = id => sock[d][i].channel_id = id.c

\* C7 amended: every delivered copy of a message without recipient carries
\* the channel name of the connection it is delivered to.
C7_CopyCarriesReceiverChannel ==
    \A id \in RelayIds :
        (IsMessage(TheCall(id).content) /\ HasNoRecipient(TheCall(id).content)) =>
            \A d \in Channels : \A i \in DOMAIN sock[d] :
                sock[d][i].id = id => sock[d][i].channel_id = d

\* C7 witness: a copy of a broadcast has been delivered to a connection
\* other than its sender.
C7_Witness ==
    \E id \in RelayIds : \E d \in Channels :
        /\ IsMessage(TheCall(id).content) /\ HasNoRecipient(TheCall(id).content)
        /\ d # id.c /\ SCopies(d, id) = 1

ConnectIds    == {id \in Made : TheCall(id).op = "connect"}
DisconnectIds == {id \in Made : TheCall(id).op = "disconnect"}

\* the status frames on sockets are the caller's type and id and the flag
StatusCopies(id, connected) ==
    \A d \in Channels : \A i \in DOMAIN sock[d] :
        sock[d][i].id = id =>
            LET m == sock[d][i].message IN
            /\ m.type = JStr("client_connection_status")
            /\ m.client_type = conn[id.c].client_type
            /\ m.client_id = conn[id.c].client_id
            /\ m.connected = connected

\* C8: a join with a client_type puts exactly one connected=true status
\* event, with the joiner's client_type and client_id, on the way to every
\* connection of the room, the joiner included; a join without client_type
\* produces none.
C8_JoinStatus ==
    \A id \in ConnectIds :
        LET k == TheCall(id) IN
        /\ k.query[1] # None =>
              /\ BroadcastReachesRoom(id)
              /\ StatusCopies(id, "true")
        /\ k.query[1] = None => \A d \in Channels : Copies(d, id) = 0

\* C8 witness: the status of a typed join has reached the joiner's socket
\* and the socket of a connection that was in the room before.
C8_Witness ==
    \E id \in ConnectIds : \E d \in Channels :
        /\ TheCall(id).query[1] # None
        /\ d # id.c /\ SCopies(d, id) = 1 /\ SCopies(id.c, id) = 1

\* C9: a leave of a connection that joined with a client_type puts exactly
\* one connected=false status event on the way to every connection that
\* remains in the room and none to the leaving connection; a leave of an
\* untyped connection produces none.
C9_LeaveStatus ==
    \A id \in DisconnectIds :
        LET k == TheCall(id) IN
        /\ conn[id.c].client_type # None =>
              /\ id.c \notin k.members
              /\ \A d \in Channels : Copies(d, id) = IF d \in k.members THEN 1 ELSE 0
              /\ StatusCopies(id, "false")
        /\ conn[id.c].client_type = None => \A d \in Channels : Copies(d, id) = 0

\* C9 witness: the status of a typed leave has reached the socket of a
\* connection that stayed.
C9_Witness ==
    \E id \in DisconnectIds : \E d \in Channels :
        /\ conn[id.c].client_type # None
        /\ SCopies(d, id) = 1 /\ Copies(id.c, id) = 0

\* C10: a connection whose client_type is set has a client_id that is not
\* None: the one supplied, or else its own channel name.
C10_TypedHasClientId ==
    \A c \in Opened :
        conn[c].client_type # None =>
            /\ conn[c].client_id # None
            /\ conn[c].client_id =
                 IF calls[c][1].query[2] # None THEN calls[c][1].query[2] ELSE c

\* C10 witness: a typed connection that supplied no client_id.
C10_Witness ==
    \E c \in Opened :
        /\ conn[c].client_type # None /\ calls[c][1].query[2] = None
        /\ conn[c].client_id = c

\* ------------------------------------------------------------------ C11
\* group_discard has taken d out of its room's group
Removed(d) ==
    /\ conn[d].room_group_name # None
    /\ d \notin groups[conn[d].room_group_name]

\* this step is a receive_json call of c
RelayStep(c) ==
    /\ Len(calls'[c]) = Len(calls[c]) + 1
    /\ calls'[c][Len(calls'[c])].op = "receive_json"

\* C11: under any interleaving of join, leave and relay, a relay that starts
\* after group_discard removed a connection from the room puts nothing on the
\* way to that connection through the group, nothing at all is written to
\* the socket of a removed connection, and no relay ever has more than one
\* copy on the way to or written to any one connection.
C11_NoDeliveryAfterLeave ==
    /\ [](\A id \in RelayIds : \A d \in Channels : Copies(d, id) <= 1)
    /\ [][\A d \in Channels : Removed(d) =>
            /\ sock'[d] = sock[d]
            /\ \A c \in Channels :
                 (RelayStep(c) /\ Route(calls'[c][Len(calls'[c])].content) # "unicast")
                     => queue'[d] = queue[d]]_vars

\* c got the leave status of d and after it the copy of its own broadcast,
\* of which d, removed from the room, got none
C11_Witness ==
    \E c \in Channels, d \in Channels :
        /\ c # d /\ Removed(d)
        /\ \E i \in DOMAIN sock[c], j \in DOMAIN sock[c] :
             /\ i < j
             /\ sock[c][i].id.c = d
             /\ sock[c][i].message.connected = "false"
             /\ sock[c][j].id \in RelayIds
             /\ sock[c][j].id.c = c
             /\ Route(TheCall(sock[c][j].id).content) = "broadcast"
             /\ Copies(d, sock[c][j].id) = 0

\* ------------------------------------------------------------------ C12
\* the places in trace where the client began a backoff sleep
SleepIdx == {i \in DOMAIN trace : trace[i].ev = "sleep"}

\* the last place before i where setup() returned on a new connection
LastSetup(i) ==
    LET S == {k \in 1..(i - 1) : trace[k].ev = "setup"} IN
    IF S = {} THEN 0 ELSE CHOOSE k \in S : \A l \in S : l <= k

\* the sleep at i is the n-th in a row since the client started or since
\* its last connection was set up
RunLength(i) == Cardinality({j \in SleepIdx : LastSetup(i) < j /\ j <= i})

\* 0.1, 0.2, 0.4, 0.8, 1.6, 3.2, 5.0, 5.0, ... in tenths of a second
ExpectedDelay(n) == IF n <= 7 THEN <<1, 2, 4, 8, 16, 32, 50>>[n] ELSE 50

\* C12: the delays slept over consecutive failed attempts are 0.1, 0.2, 0.4,
\* 0.8, 1.6, 3.2, 5.0, 5.0, ..., and the loss of a connection that had been
\* set up is followed by a delay of 0.1 whatever the delay had grown to.
C12_BackoffSequence ==
    \A i \in SleepIdx : trace[i].d = ExpectedDelay(RunLength(i))

\* eight failures in a row, the last two slept for 5.0; then a connection,
\* and after its loss a sleep of 0.1
C12_Witness ==
    \E i \in SleepIdx, j \in SleepIdx :
        /\ RunLength(i) = 8 /\ trace[i].d = 50
        /\ i < j /\ LastSetup(j) > i
        /\ RunLength(j) = 1 /\ trace[j].d = 1

\* ------------------------------------------------------------ C13, C14
FrameIdx == {i \in DOMAIN trace : trace[i].ev = "frame"}
SendIdx  == {i \in DOMAIN trace : trace[i].ev = "send"}

\* the writes to a socket, and the handle_message calls, that the frame or
\* the send_message call at place i of trace led to
WritesFor(i) ==
    {k \in DOMAIN trace : trace[k].ev = "write" /\ trace[k].cause = i}
DispatchesFor(i) ==
    {k \in DOMAIN trace : trace[k].ev = "dispatch" /\ trace[k].cause = i}

\* the connection of the frame at i went down before the client answered
DiedAfter(i) == i < Len(trace) /\ trace[i + 1].ev = "closed"

\* C13: for every ping frame received while connected the client writes
\* exactly one message to the socket the ping came on, {type: pong,
\* timestamp: the ping's timestamp, recipient: the ping's sender_id} (null
\* for a key the ping lacks), which is transmitted unless the connection
\* went down in between, and handle_message is not called for it; every
\* other frame that parses to a mapping is handed to handle_message exactly
\* once, unchanged, and leads to no write.
C13_PingPong ==
    \A i \in FrameIdx :
        LET f == trace[i].msg IN
        /\ (f.j = "object" /\ f.type = "ping") =>
             /\ Cardinality(WritesFor(i)) = 1
             /\ DispatchesFor(i) = {}
             /\ \A k \in WritesFor(i) :
                  /\ trace[k].s = trace[i].s
                  /\ trace[k].msg =
                       [j |-> "object", type |-> "pong",
                        timestamp |-> IF f.timestamp = Absent THEN None
                                      ELSE f.timestamp,
                        sender_id |-> Absent,
                        recipient |-> IF f.sender_id = Absent THEN None
                                      ELSE f.sender_id]
                  /\ (trace[k].out = "sent") <=> ~DiedAfter(i)
        /\ (f.j = "object" /\ f.type # "ping") =>
             /\ Cardinality(DispatchesFor(i)) = 1
             /\ WritesFor(i) = {}
             /\ \A k \in DispatchesFor(i) : trace[k].msg = f

\* the ping of the test got its pong onto the wire and a message of another
\* type went to handle_message
C13_Witness ==
    \E i \in FrameIdx, n \in FrameIdx :
        /\ trace[i].msg.type = "ping"
        /\ trace[i].msg.timestamp = "12345"
        /\ trace[i].msg.sender_id = "server"
        /\ \E k \in WritesFor(i) :
             /\ trace[k].out = "sent"
             /\ trace[k].msg.recipient = "server"
             /\ trace[k].msg.timestamp = "12345"
        /\ trace[n].msg.type = "toggle_buzzers"
        /\ DispatchesFor(n) # {}

\* this step is a send_message call of the application
SendStep ==
    /\ Len(trace') > Len(trace)
    /\ trace'[Len(trace) + 1].ev = "send"

\* the socket s was seen closed at or before place k of trace
ClosedBy(s, k) ==
    \E c \in 1..k : trace[c].ev \in {"closed", "lost"} /\ trace[c].s = s

\* C14: a send_message call made while the client has no socket handle
\* leads to no write, neither then nor after a later reconnect; the write of
\* any call is made at the call, once, on the socket of that moment, and
\* transmits only if that connection is still up; whatever the outcome the
\* call returns: the client's loop goes on where it was.
C14_SendDropsWithoutSocket ==
    /\ [](\A i \in SendIdx :
            /\ trace[i].s = NoSocket => WritesFor(i) = {}
            /\ Cardinality(WritesFor(i)) <= 1
            /\ \A k \in WritesFor(i) :
                 /\ k = i + 1
                 /\ trace[k].s = trace[i].s
                 /\ trace[k].out = "sent" => ~ClosedBy(trace[k].s, k))
    /\ [][SendStep => /\ pc' = pc /\ running' = running
                      /\ raising' = raising
                      /\ websocket' = websocket /\ alive' = alive]_vars

\* a call without socket that led to no write although the client connected
\* afterwards and sent on, and a call whose write failed on a closed socket
C14_Witness ==
    \E i \in SendIdx, n \in SendIdx :
        /\ trace[i].s = NoSocket
        /\ WritesFor(i) = {}
        /\ \E k \in DOMAIN trace : k > i /\ trace[k].ev = "setup"
        /\ n > i
        /\ \E k \in WritesFor(n) : trace[k].out = "failed"

\* ------------------------------------------------------------------ C15
\* the k-th connection attempt failed or its connection was lost
FailedAttempt(k) ==
    \E i \in DOMAIN trace :
        /\ trace[i].ev \in {"connect_error", "closed"}
        /\ trace[i].s = k

\* C15: run() never ends by an exception and returns only after stop(); a
\* new attempt after the first starts only out of the backoff sleep; and,
\* the event loop running the client, every failed attempt and every lost
\* connection (connect error, connection closed by the peer or broken under
\* a read or a write) is followed by the next attempt unless stop() is
\* called, however many failures came before.
C15_FailuresAreRetried ==
    /\ [](pc # "raised")
    /\ [](pc = "returned" => Stopped)
    /\ [][(Attempts' > Attempts /\ Attempts > 0) => pc = "sleeping"]_vars
    /\ \A k \in 1..FewFailures :
         FailedAttempt(k) ~> (Stopped \/ Attempts > k)

\* a refused attempt, then a connection lost under a write, then the third
\* attempt, and no stop()
C15_Witness ==
    /\ ~Stopped
    /\ Attempts = 3
    /\ \E i \in DOMAIN trace : trace[i].ev = "connect_error"
    /\ \E i \in DOMAIN trace : trace[i].ev = "write" /\ trace[i].out = "failed"

\* ------------------------------------------------------------------ C16
\* C16: once stop() has been called on a running client no connection
\* attempt starts any more, wherever the client was at that moment.
C16_NoAttemptAfterStop ==
    [][Stopped => Attempts' = Attempts]_vars

\* stop() came during a backoff sleep; the sleep ended and run() returned
\* without the attempt that was due
C16_Witness ==
    /\ pc = "returned"
    /\ \E i \in DOMAIN trace :
         /\ trace[i].ev = "sleep"
         /\ i < Len(trace)
         /\ trace[i + 1].ev = "stop"
         /\ \A k \in DOMAIN trace : k > i => trace[k].ev # "attempt"

\* ------------------------------------------------------------------ C17
\* C17: between a failed attempt or a lost connection and the next backoff
\* sleep or attempt, teardown() is called and after it the socket handle is
\* cleared; every frame handled on a connection comes after setup()
\* returned for that connection; and the handle is null whenever the client
\* sleeps, is connecting or has not started or has returned.
C17_HooksAndHandle ==
    /\ pc \in {"created", "connecting", "sleeping", "returned"}
           => websocket = NoSocket
    /\ \A i \in DOMAIN trace, k \in DOMAIN trace :
         (/\ trace[i].ev \in {"lost", "connect_error"}
          /\ trace[k].ev \in {"sleep", "attempt"}
          /\ i < k)
         => \E t \in (i + 1)..(k - 1), c \in (i + 1)..(k - 1) :
              /\ t < c
              /\ trace[t].ev = "teardown"
              /\ trace[c].ev = "clear"
              /\ trace[c].s = NoSocket
    /\ \A i \in FrameIdx :
         \E k \in 1..(i - 1) :
             trace[k].ev = "setup" /\ trace[k].s = trace[i].s

\* a connection was set up, handled a frame and was lost; the client is
\* connecting again, without a handle
C17_Witness ==
    /\ pc = "connecting"
    /\ websocket = NoSocket
    /\ \E i \in FrameIdx, l \in DOMAIN trace, k \in DOMAIN trace :
         /\ i < l /\ l < k
         /\ trace[l].ev = "lost"
         /\ trace[k].ev = "sleep"

\* ------------------------------------------------------------------ C18
\* this step handles a frame that does not parse to a mapping or on which
\* handle_message raises
BadFrameStep ==
    /\ Len(trace') > Len(trace)
    /\ trace'[Len(trace) + 1].ev = "frame"
    /\ trace'[Len(trace) + 1].out # "none"

\* C18: handling a frame that cannot be parsed, or on which handle_message
\* raises, leaves the client in the message loop on the same open socket,
\* with no teardown and nothing else but the frame and the call recorded;
\* and every frame that parses to a mapping, whichever frames came before
\* it on the connection, is still answered or handed to handle_message.
C18_BadFrameSkipped ==
    /\ [][BadFrameStep =>
            /\ pc' = "connected" /\ pc = "connected"
            /\ websocket' = websocket
            /\ alive' /\ raising' = "none"
            /\ \A k \in (Len(trace) + 1)..Len(trace') :
                 trace'[k].ev \in {"frame", "dispatch"}]_vars
    /\ [](\A i \in FrameIdx :
            trace[i].msg.j = "object"
                => WritesFor(i) \cup DispatchesFor(i) # {})

\* an unparsable frame, then a frame on which handle_message raised, then a
\* frame handle_message took, all on one connection
C18_Witness ==
    \E a \in FrameIdx, b \in FrameIdx, c \in FrameIdx :
        /\ a < b /\ b < c
        /\ trace[a].s = trace[c].s
        /\ trace[a].msg.j = "text"
        /\ \E k \in DispatchesFor(b) : trace[k].out = "raised"
        /\ \E k \in DispatchesFor(c) : trace[k].out = "returned"

\* ------------------------------------------------------------ C19, C20
\* the packets that rule r sent for the n-th message, in order
PacketsOf(n, r) == SelectSeq(udp, LAMBDA p : p.n = n /\ p.rule = r)

\* the message's field f equals the expected value e; a field that is not
\* there reads as null
FieldEquals(m, f, e) ==
    IF m.fields[f].k = "absent" THEN e.k = "none"
    ELSE PyEq(m.fields[f], e)

ConditionFields(rule) == {f \in Fields : rule.conditions[f].k # "absent"}

DeclaredArgs(p) ==
    LET rule   == config.outgoing[p.rule]
        merged == Merge(config.default_destination,
                        Destinations(config, rule)[p.dest])
    IN IF merged.args.has THEN merged.args.v ELSE <<>>

\* C20: every packet sent carries exactly one value per declared argument,
\* in the order of declaration; at the position of an argument whose field
\* is missing from the message it carries the declared default (converted
\* to the declared type, the default itself when no type is declared), at
\* the others the message's value converted to the declared type.
C20_DefaultsInOrder ==
    \A i \in DOMAIN udp :
        LET p    == udp[i]
            m    == handled[p.n]
            args == DeclaredArgs(p)
        IN /\ Len(p.args) = Len(args)
           /\ \A a \in DOMAIN args :
                LET v == m.fields[args[a].field] IN
                IF v.k \in {"absent", "none"}
                THEN /\ args[a].default.k # "none"
                     /\ p.args[a] = convert_type(args[a].default, args[a].type, "to_osc")
                     /\ args[a].type = None => p.args[a] = args[a].default
                ELSE p.args[a] = convert_type(v, args[a].type, "to_osc")

\* the message of the test: value1 and value2 given, "missing" not; the
\* packet to /test carries hello, 3 and the default 42
C20_Witness ==
    \E i \in DOMAIN udp :
        /\ udp[i].address = "/test"
        /\ handled[udp[i].n].fields["missing"].k = "absent"
        /\ udp[i].args = <<VStr("hello"), VInt(3), VInt(42)>>


\* ------------------------------------------------------------------ C21
\* rule r is applied to the n-th message: its type is the message's and
\* its conditions hold
Applies(n, r) ==
    /\ config.outgoing[r].websocket_type = handled[n].type
    /\ \A f \in ConditionFields(config.outgoing[r]) :
         FieldEquals(handled[n], f, config.outgoing[r].conditions[f])

\* destination d of rule r with the default destination's keys under it,
\* and the arguments it declares
DestsOf(r) == Destinations(config, config.outgoing[r])
MergedDest(r, d) == Merge(config.default_destination, DestsOf(r)[d])
ArgsOf(r, d) ==
    IF MergedDest(r, d).args.has THEN MergedDest(r, d).args.v ELSE <<>>
Complete(r, d) ==
    /\ MergedDest(r, d).host \notin {Absent, ""}
    /\ MergedDest(r, d).port \notin {Absent, ""}
    /\ MergedDest(r, d).address \notin {Absent, ""}

\* the value the message gives for a declared argument, its default
\* otherwise (null when it declares none)
Resolved(m, arg) ==
    IF m.fields[arg.field].k \in {"absent", "none"} THEN arg.default
    ELSE m.fields[arg.field]

\* some argument of the destination has neither a field nor a default
Unresolved(n, r, d) ==
    \E a \in DOMAIN ArgsOf(r, d) : Resolved(handled[n], ArgsOf(r, d)[a]).k = "none"

\* every argument of the destination has a value which converts
Sendable(n, r, d) ==
    /\ Complete(r, d)
    /\ \A a \in DOMAIN ArgsOf(r, d) :
         /\ Resolved(handled[n], ArgsOf(r, d)[a]).k # "none"
         /\ convert_type(Resolved(handled[n], ArgsOf(r, d)[a]),
                         ArgsOf(r, d)[a].type, "to_osc").k # "error"

\* the packets for the n-th message by destination d of rule r
PacketsTo(n, r, d) ==
    SelectSeq(udp, LAMBDA p : p.n = n /\ p.rule = r /\ p.dest = d)

\* C21: when a rule is applied to a message and an argument of one of its
\* destinations has no field in the message and no default, no packet at
\* all goes to that destination, and every other destination of the rule
\* and of every other rule applied to the message whose arguments all have
\* a value gets its one packet with the full argument list, which is sent
\* unless the network fails for the destination's host and port.
C21_MissingFieldAbortsOneDestination ==
    \A n \in DOMAIN handled : \A r \in DOMAIN config.outgoing :
        \A d \in DOMAIN DestsOf(r) :
            (Applies(n, r) /\ Complete(r, d) /\ Unresolved(n, r, d)) =>
                /\ PacketsTo(n, r, d) = <<>>
                /\ \A r2 \in DOMAIN config.outgoing :
                       \A d2 \in DOMAIN DestsOf(r2) :
                         (Applies(n, r2) /\ Sendable(n, r2, d2)) =>
                             /\ Len(PacketsTo(n, r2, d2)) = 1
                             /\ Len(PacketsTo(n, r2, d2)[1].args)
                                    = Len(ArgsOf(r2, d2))
                             /\ PacketsTo(n, r2, d2)[1].out = "sent"
                                  <=> NetOf(Key(MergedDest(r2, d2).host,
                                                MergedDest(r2, d2).port)) = "ok"

\* the first destination of a rule misses value1 and got nothing, the
\* rule's second destination and another rule's destination got a packet
C21_Witness ==
    \E n \in DOMAIN handled :
        \E r \in DOMAIN config.outgoing, r2 \in DOMAIN config.outgoing :
            /\ r # r2
            /\ Applies(n, r) /\ Applies(n, r2)
            /\ Len(DestsOf(r)) = 2
            /\ Complete(r, 1) /\ Unresolved(n, r, 1)
            /\ PacketsTo(n, r, 1) = <<>>
            /\ Len(PacketsTo(n, r, 2)) = 1
            /\ PacketsTo(n, r, 2)[1].out = "sent"
            /\ Len(PacketsTo(n, r2, 1)) = 1
            /\ PacketsTo(n, r2, 1)[1].out = "sent"

\* ------------------------------------------------------------------ C24
\* converting an argument of the destination raises before any argument
\* is found missing
CoercionFails(n, r, d) ==
    /\ Complete(r, d)
    /\ \E a \in DOMAIN ArgsOf(r, d) :
         /\ convert_type(Resolved(handled[n], ArgsOf(r, d)[a]),
                         ArgsOf(r, d)[a].type, "to_osc").k = "error"
         /\ \A b \in 1..a :
              Resolved(handled[n], ArgsOf(r, d)[b]).k # "none"

\* the client for the destination could not be made, or its send raised
SendFails(n, r, d) ==
    \E i \in DOMAIN udp :
        /\ udp[i].n = n /\ udp[i].rule = r /\ udp[i].dest = d
        /\ udp[i].out \in {"send_error", "create_error"}

\* destination d2 of rule r2 comes after destination d of rule r
Later(r, d, r2, d2) == r2 > r \/ (r2 = r /\ d2 > d)

\* C24: no exception of a destination leaves _send_osc_from_websocket, and
\* when a destination of a rule applied to a message fails (its client
\* cannot be made, its send raises, or converting an argument raises),
\* every later destination of the rule and of the later rules applied to
\* the message whose arguments all have a value is still gone to, once.
C24_DestinationFailureContained ==
    /\ \A i \in DOMAIN udp : udp[i].out # "raised"
    /\ \A n \in DOMAIN handled : \A r \in DOMAIN config.outgoing :
         \A d \in DOMAIN DestsOf(r) :
            (Applies(n, r) /\ (CoercionFails(n, r, d) \/ SendFails(n, r, d))) =>
                \A r2 \in DOMAIN config.outgoing :
                    \A d2 \in DOMAIN DestsOf(r2) :
                       (Later(r, d, r2, d2) /\ Applies(n, r2)
                            /\ Sendable(n, r2, d2)) =>
                           Len(PacketsTo(n, r2, d2)) = 1

\* converting value1 failed for the first destination of a rule, no client
\* could be made for its second destination, and the destination of the
\* next rule got the packet
C24_Witness ==
    \E n \in DOMAIN handled :
        \E r \in DOMAIN config.outgoing, r2 \in DOMAIN config.outgoing :
            /\ r < r2
            /\ Applies(n, r) /\ Applies(n, r2)
            /\ Len(DestsOf(r)) = 2
            /\ CoercionFails(n, r, 1)
            /\ PacketsTo(n, r, 1) = <<>>
            /\ Len(PacketsTo(n, r, 2)) = 1
            /\ PacketsTo(n, r, 2)[1].out = "create_error"
            /\ Len(PacketsTo(n, r2, 1)) = 1
            /\ PacketsTo(n, r2, 1)[1].out = "sent"

\* ------------------------------------------------------------ C22, C23
\* the messages sent for the e-th OSC event
MessagesFor(e) == SelectSeq(ws, LAMBDA m : m.e = e)

\* the first incoming rule for the address of the e-th event, 0 if none
RulesFor(e) ==
    {r \in DOMAIN config.incoming :
        config.incoming[r].osc_address = osc_in[e].address}
FirstRuleFor(e) ==
    IF RulesFor(e) = {} THEN 0
    ELSE CHOOSE r \in RulesFor(e) : \A q \in RulesFor(e) : r <= q

\* the event has no argument at some index the rule declares
TooShort(e, rule) ==
    \E a \in DOMAIN rule.args : rule.args[a].osc_index >= Len(osc_in[e].args)

\* the value of the event at the index of entry a, converted as declared
Incoming(e, rule, a) ==
    convert_type(osc_in[e].args[rule.args[a].osc_index + 1],
                 rule.args[a].type, "to_websocket")

\* every argument the rule declares converts to its declared type
AllConvert(e, rule) ==
    \A a \in DOMAIN rule.args : Incoming(e, rule, a).k # "error"

\* exactly one message was sent for the event: of the rule's type and with
\* every declared field
OneFullMessage(e, rule) ==
    /\ Len(MessagesFor(e)) = 1
    /\ MessagesFor(e)[1].type = rule.websocket_type
    /\ \A a \in DOMAIN rule.args :
         MessagesFor(e)[1].fields[rule.args[a].websocket_field].k # "absent"

\* C22 as stated: an event too short for its rule produces no message, and
\* every event with enough arguments produces exactly one message of the
\* rule's type with every declared field.
C22_EnoughArgumentsAlwaysSend ==
    \A e \in DOMAIN osc_in :
        FirstRuleFor(e) # 0 =>
            LET rule == config.incoming[FirstRuleFor(e)] IN
            IF TooShort(e, rule) THEN MessagesFor(e) = <<>>
            ELSE OneFullMessage(e, rule)

\* C22: an event too short for its rule produces no message; an event with
\* enough arguments, each of which converts to its declared type, produces
\* exactly one message of the rule's type in which every declared field
\* holds the converted argument and no other field is set; an event with
\* an argument whose conversion raises produces no message.
C22_ShortOrUnconvertibleSendsNothing ==
    \A e \in DOMAIN osc_in :
        FirstRuleFor(e) # 0 =>
            LET rule == config.incoming[FirstRuleFor(e)] IN
            IF TooShort(e, rule) THEN MessagesFor(e) = <<>>
            ELSE IF ~AllConvert(e, rule) THEN MessagesFor(e) = <<>>
            ELSE /\ OneFullMessage(e, rule)
                 /\ \A a \in DOMAIN rule.args :
                      (\A b \in DOMAIN rule.args :
                          b > a => rule.args[b].websocket_field
                                      # rule.args[a].websocket_field)
                        => MessagesFor(e)[1].fields[rule.args[a].websocket_field]
                              = Incoming(e, rule, a)
                 /\ \A f \in WsFields :
                      MessagesFor(e)[1].fields[f].k # "absent" =>
                          \E a \in DOMAIN rule.args :
                              rule.args[a].websocket_field = f

\* the events of the tests: /buzzer/press with 5 alone sent nothing, with
\* 5 and 0.75 it sent buzzer_pressed with buzzerId 5 and pressure 0.75
C22_Witness ==
    \E e1 \in DOMAIN osc_in, e2 \in DOMAIN osc_in :
        /\ osc_in[e1].address = "/buzzer/press"
        /\ osc_in[e1].args = <<VInt(5)>>
        /\ FirstRuleFor(e1) # 0
        /\ Len(config.incoming[FirstRuleFor(e1)].args) = 2
        /\ MessagesFor(e1) = <<>>
        /\ osc_in[e2].args = <<VInt(5), VFloat(75)>>
        /\ Len(MessagesFor(e2)) = 1
        /\ MessagesFor(e2)[1].type = "buzzer_pressed"
        /\ MessagesFor(e2)[1].fields["buzzerId"] = VInt(5)
        /\ MessagesFor(e2)[1].fields["pressure"] = VFloat(75)

\* C23: for every OSC event at most one message is sent, and only by the
\* first incoming rule, in the order of the configuration, whose address
\* is the event's: an event whose address no rule has sends nothing, and
\* when the first rule for the address sends nothing no later rule for the
\* address does either.
C23_FirstMatchingRuleOnly ==
    \A e \in DOMAIN osc_in :
        /\ Len(MessagesFor(e)) <= 1
        /\ FirstRuleFor(e) = 0 => MessagesFor(e) = <<>>
        /\ \A i \in DOMAIN ws :
             ws[i].e = e =>
                /\ ws[i].rule = FirstRuleFor(e)
                /\ ws[i].type = config.incoming[FirstRuleFor(e)].websocket_type

\* two rules for /buzzer/press: the event is too short for the first and
\* long enough for the second, and nothing was sent for it; another event
\* for the address was sent by the first of the two rules
C23_Witness ==
    \E e \in DOMAIN osc_in, r2 \in DOMAIN config.incoming :
        /\ FirstRuleFor(e) # 0 /\ r2 > FirstRuleFor(e)
        /\ config.incoming[r2].osc_address = osc_in[e].address
        /\ TooShort(e, config.incoming[FirstRuleFor(e)])
        /\ ~TooShort(e, config.incoming[r2])
        /\ AllConvert(e, config.incoming[r2])
        /\ MessagesFor(e) = <<>>
        /\ \E e2 \in DOMAIN osc_in :
             /\ e2 # e
             /\ osc_in[e2].address = osc_in[e].address
             /\ Len(MessagesFor(e2)) = 1
             /\ MessagesFor(e2)[1].rule = FirstRuleFor(e)

\* ------------------------------------------------------------------ C25
\* x (in hundredths) cut to the integer z towards zero
TruncatesTo(x, z) ==
    IF x >= 0 THEN z >= 0 /\ z * 100 <= x /\ x < (z + 1) * 100
    ELSE z <= 0 /\ z * 100 >= x /\ x > (z - 1) * 100

\* the truth value of a value: a number other than zero, a string with
\* characters
Truthiness(v) ==
    \/ v.k \in {"bool", "int", "float"} /\ v.n # 0
    \/ v.k = "str" /\ v.s # ""

\* C25: _convert_type with type int gives, in both directions, the integer
\* a number is cut to towards zero, and 0 or 1 for a boolean going out;
\* with type bool it gives value > 0.5 for a number coming in and the
\* truth value of the value going out; and with no declared type, or one
\* that is not int, float, bool or string, it returns the value as it is,
\* without an error.
C25_Coercion ==
    \A i \in DOMAIN conversions :
        LET c == conversions[i] IN
        /\ (c.type = "int" /\ c.value.k \in {"bool", "int", "float"}) =>
              /\ c.result.k = "int"
              /\ c.result.n % 100 = 0
              /\ TruncatesTo(c.value.n, c.result.n \div 100)
        /\ (c.type = "int" /\ c.direction = "to_osc" /\ c.value.k = "bool") =>
              c.result = (IF c.value = VBool(TRUE) THEN VInt(1) ELSE VInt(0))
        /\ (c.type = "bool" /\ c.direction = "to_websocket"
                /\ c.value.k \in {"bool", "int", "float"}) =>
              c.result = VBool(c.value.n > 50)
        /\ (c.type = "bool" /\ c.direction = "to_osc") =>
              c.result = VBool(Truthiness(c.value))
        /\ c.type \notin {"int", "float", "bool", "string"} =>
              c.result = c.value

\* -2.5 was cut to -2 on its way in, and a value of a type that is not an
\* OSC type came back as it was
C25_Witness ==
    \E i \in DOMAIN conversions, j \in DOMAIN conversions :
        /\ conversions[i].value = VFloat(-250)
        /\ conversions[i].type = "int"
        /\ conversions[i].direction = "to_websocket"
        /\ conversions[i].result = VInt(-2)
        /\ conversions[j].type = "blob"
        /\ conversions[j].value = VStr("abc")
        /\ conversions[j].result = VStr("abc")

\* ------------------------------------------------------------------ C26
\* the returns of _get_osc_client for a key that made a new object
MadeFor(key) ==
    {i \in DOMAIN clients_got : clients_got[i].key = key /\ clients_got[i].made}

\* C26: at most one client object is ever made for a host and port, every
\* return of _get_osc_client for the pair is that one object, and it is
\* the one in the cache, also when the rules of handle_message calls that
\* overlap use the pair for the first time.
C26_OneClientPerPair ==
    /\ \A i \in DOMAIN clients_got :
         /\ Cardinality(MadeFor(clients_got[i].key)) = 1
         /\ clients_got[i].key \in DOMAIN osc_clients
         /\ osc_clients[clients_got[i].key] = clients_got[i].obj
         /\ \A j \in DOMAIN clients_got :
              clients_got[j].key = clients_got[i].key
                  => clients_got[j].obj = clients_got[i].obj
    /\ \A key \in DOMAIN osc_clients : Cardinality(MadeFor(key)) = 1

\* two calls of handle_message overlapped: the first sent to a host and
\* port, then the second did, then the first again by its next rule, and
\* one object was made for the pair
C26_Witness ==
    \E i \in DOMAIN udp, j \in DOMAIN udp, k \in DOMAIN udp :
        /\ i < j /\ j < k
        /\ udp[i].n = 1 /\ udp[j].n = 2 /\ udp[k].n = 1
        /\ udp[i].rule < udp[k].rule
        /\ udp[i].out = "sent" /\ udp[j].out = "sent" /\ udp[k].out = "sent"
        /\ udp[j].host = udp[i].host /\ udp[j].port = udp[i].port
        /\ udp[k].host = udp[i].host /\ udp[k].port = udp[i].port
        /\ Cardinality(MadeFor(Key(udp[i].host, udp[i].port))) = 1
        /\ Len(clients_got) >= 3

\* ------------------------------------------------------------------ C27
\* C27: selected only changes from none to a channel, in a step of the
\* scanner at `self.selected = c`, or from a channel to none, in the
\* client's handling of toggle_buzzers; it never changes from one channel
\* to another, however the scanner's steps and the client's interleave.
C27_SelectedTransitions ==
    [][selected' # selected =>
          \/ /\ selected = NoChannel
             /\ scan_pc = "latch" /\ scan_pc' = "call"
             /\ selected' = chan
             /\ listen_pc' = listen_pc
          \/ /\ selected' = NoChannel
             /\ listen_pc = "clearing" /\ listen_pc' # "clearing"
             /\ scan_pc' = scan_pc]_vars

\* the scanner latched one channel, was cleared, and then latched another
C27_Witness ==
    /\ Len(latched) = 2
    /\ latched[1] # latched[2]
    /\ selected = latched[2]
    /\ cleared >= 1

\* ------------------------------------------------------------------ C28
\* the scanner is parked on a latched channel
Parked == scan_pc = "parked" \/ (scan_pc = "top" /\ selected # NoChannel)

\* C28: the callback has been called once, with the channel, for each
\* change of selected from none to a channel (the call for the last change
\* is still to come exactly when the scanner stands between the assignment
\* and the call), and no step taken while the scanner is parked calls it.
C28_OneCallPerLatch ==
    /\ [](/\ Len(presses) <= Len(latched)
          /\ \A i \in DOMAIN presses : presses[i] = latched[i]
          /\ Len(latched) = Len(presses) + (IF scan_pc = "call" THEN 1 ELSE 0))
    /\ [][/\ (selected = NoChannel /\ selected' # NoChannel)
                <=> latched' # latched
          /\ latched' # latched => latched' = Append(latched, selected')
          /\ Parked => presses' = presses]_vars

\* two latches, two calls of the callback, and the scanner parked on the
\* second channel
C28_Witness ==
    /\ scan_pc = "parked"
    /\ selected # NoChannel
    /\ Len(latched) = 2
    /\ presses = latched

\* ------------------------------------------------------------------ C29
\* C29 as stated: no step taken in a state where enabled is false changes
\* selected from none to a channel or calls the callback.
C29_LatchOnlyWhileArmed ==
    [][((selected = NoChannel /\ selected' # NoChannel)
            \/ presses' # presses) => enabled]_vars

\* ------------------------------------------------------------------ C30
\* the rows for a player and a question
RowsFor(table, player_id, question_id) ==
    {a \in table : a.player = player_id /\ a.question = question_id}

\* C30: a call of record_player_answer for a player and a question leaves
\* one new row with the given correctness and points when there was none,
\* no row when there was one of the other correctness, and the same row
\* with the given points when there was one of the same correctness; it
\* leaves the rows of every other pair alone; and there is never more than
\* one row for a pair.
C30_CreateUndoUpdate ==
    /\ [](\A p \in Players, q \in Questions :
            Cardinality(RowsFor(answers, p, q)) <= 1)
    /\ [][recorded' # recorded =>
            LET call   == recorded'[Len(recorded')]
                before == RowsFor(answers, call.player_id, call.question_id)
                after  == RowsFor(answers', call.player_id, call.question_id)
            IN /\ before = {} =>
                    /\ Cardinality(after) = 1
                    /\ \A a \in after :
                         /\ a.is_correct = call.is_correct
                         /\ a.points = call.points
                         /\ \A b \in answers : b.id # a.id
               /\ \A b \in before :
                    IF b.is_correct # call.is_correct THEN after = {}
                    ELSE after = {[b EXCEPT !.points = call.points]}
               /\ \A p \in Players, q \in Questions :
                    <<p, q>> # <<call.player_id, call.question_id>> =>
                        RowsFor(answers', p, q) = RowsFor(answers, p, q)]_vars

\* an answer was recorded as correct, its points were changed, and it was
\* undone by recording it as incorrect: no row is left for the pair
C30_Witness ==
    /\ Len(recorded) = 3
    /\ recorded[1].player_id = recorded[2].player_id
    /\ recorded[2].player_id = recorded[3].player_id
    /\ recorded[1].question_id = recorded[2].question_id
    /\ recorded[2].question_id = recorded[3].question_id
    /\ recorded[1].is_correct /\ recorded[2].is_correct
    /\ ~recorded[3].is_correct
    /\ recorded[1].points # recorded[2].points
    /\ returned[2].score = 150
    /\ returned[3].score = 0
    /\ answers = {}

\* ------------------------------------------------------------------ C31
\* C31: a call of record_player_answer adds exactly 1 to the player's
\* score_version and returns the new value, whatever it does to the
\* answers; a call of update_question_status adds exactly 1 to the
\* question's state_version and returns the new value, whatever answered
\* was; no other version changes in the step; and no two calls for the
\* same player, or for the same question, have returned the same version.
C31_VersionsCount ==
    /\ [][/\ recorded' # recorded =>
               LET call == recorded'[Len(recorded')]
                   res  == returned'[Len(returned')]
               IN /\ Len(returned') = Len(returned) + 1
                  /\ res.player_id = call.player_id
                  /\ score_version'[call.player_id]
                        = score_version[call.player_id] + 1
                  /\ res.version = score_version'[call.player_id]
                  /\ \A p \in Players \ {call.player_id} :
                        score_version'[p] = score_version[p]
                  /\ state_version' = state_version
          /\ status_returned' # status_returned =>
               LET res == status_returned'[Len(status_returned')] IN
               /\ state_version'[res.question_id]
                     = state_version[res.question_id] + 1
               /\ res.version = state_version'[res.question_id]
               /\ \A q \in Questions \ {res.question_id} :
                     state_version'[q] = state_version[q]
               /\ score_version' = score_version
          /\ \A p \in Players : score_version'[p] >= score_version[p]
          /\ \A q \in Questions : state_version'[q] >= state_version[q]]_vars
    /\ [](/\ \A i \in DOMAIN returned, j \in DOMAIN returned :
               (i < j /\ returned[i].player_id = returned[j].player_id)
                   => returned[i].version < returned[j].version
          /\ \A i \in DOMAIN status_returned, j \in DOMAIN status_returned :
               (i < j /\ status_returned[i].question_id
                            = status_returned[j].question_id)
                   => status_returned[i].version < status_returned[j].version)

\* the same answer recorded twice with nothing to change, then answered
\* set to what it was: the calls returned versions 1 and 2, and 1
C31_Witness ==
    /\ Len(recorded) = 2
    /\ recorded[1] = recorded[2]
    /\ returned[1].version = 1 /\ returned[2].version = 2
    /\ returned[1].score = returned[2].score
    /\ Len(status_returned) = 1
    /\ ~status_returned[1].answered
    /\ status_returned[1].version = 1

\* ------------------------------------------------------------------ C32
\* the game that owns the entity a request is about
OwningGame(req) ==
    IF req.view = "record_answer" THEN board_game_id(req.id)
    ELSE board_game_id(question_board_id(req.id))

\* the event a successful request is to broadcast, after its mutation
Broadcast(req, n, rets, stats) ==
    Event([c |-> "view", n |-> n],
          [Frame("object",
                 JStr(IF req.view = "record_answer" THEN "update_score"
                      ELSE "toggle_question"),
                 RAbsent)
             EXCEPT !.data =
                IF req.view = "record_answer"
                THEN LET res == rets[Len(rets)] IN
                     Data(ToString(res.player_id), ToString(res.score),
                          Absent, Absent, ToString(res.version))
                ELSE LET res == stats[Len(stats)] IN
                     Data(Absent, Absent, ToString(res.question_id),
                          JBool(res.answered), ToString(res.version))],
          RAbsent)

\* C32: a request answered with 200 has a valid body about rows of one
\* game, makes exactly one service call with the body's values, and puts
\* exactly one event, of the view's type and with the fields the call
\* returned, on the queue of every open connection of the owning game's
\* room and on no other queue; any other request changes neither the
\* stored state nor any queue; and a frame a connection gets from a view
\* is from a successful request about its own room's game.
C32_MutateThenBroadcastToOwner ==
    /\ [][requests' # requests =>
            LET req  == requests'[Len(requests')]
                room == get_game_room_name(OwningGame(req))
            IN
            IF req.status = 200
            THEN /\ req.body.valid
                 /\ IF req.view = "record_answer"
                    THEN /\ req.id \in Boards
                         /\ player_game_id(req.body.player_id) = board_game_id(req.id)
                         /\ question_board_id(req.body.question_id) = req.id
                         /\ Len(recorded') = Len(recorded) + 1
                         /\ recorded'[Len(recorded')].player_id = req.body.player_id
                         /\ recorded'[Len(recorded')].question_id = req.body.question_id
                         /\ recorded'[Len(recorded')].is_correct = req.body.is_correct
                         /\ status_returned' = status_returned
                    ELSE /\ req.id \in Questions
                         /\ Len(status_returned') = Len(status_returned) + 1
                         /\ question_answered'[req.id] = req.body.answered
                         /\ recorded' = recorded
                 /\ \A c \in Channels :
                       queue'[c] =
                         IF conn[c].status = "open" /\ conn[c].room_group_name = room
                         THEN Append(queue[c],
                                     Broadcast(req, Len(requests'), returned',
                                               status_returned'))
                         ELSE queue[c]
            ELSE /\ UNCHANGED <<answers, answer_pk, score_version, recorded,
                                returned, question_answered, state_version,
                                status_returned>>
                 /\ queue' = queue]_vars
    /\ [](\A c \in Channels : \A i \in DOMAIN sock[c] :
             sock[c][i].id.c = "view" =>
                /\ requests[sock[c][i].id.n].status = 200
                /\ conn[c].room_group_name
                     = get_game_room_name(OwningGame(requests[sock[c][i].id.n])))

\* an answer recorded for game 1 and then a question of game 2 toggled,
\* with one connection in each room: each got its own game's event only
C32_Witness ==
    /\ Len(requests) = 2
    /\ requests[1].view = "record_answer" /\ requests[1].status = 200
    /\ requests[2].view = "toggle_question" /\ requests[2].status = 200
    /\ OwningGame(requests[1]) = 1 /\ OwningGame(requests[2]) = 2
    /\ \E c, d \in Channels :
          /\ conn[c].room_group_name = get_game_room_name(1)
          /\ conn[d].room_group_name = get_game_room_name(2)
          /\ Len(sock[c]) = 1 /\ sock[c][1].message.type = JStr("update_score")
          /\ sock[c][1].message.data.score = "150"
          /\ Len(sock[d]) = 1 /\ sock[d][1].message.type = JStr("toggle_question")
          /\ sock[d][1].message.data.version = "1"

\* requests rejected for each reason, after which nothing was stored and
\* nothing is queued or delivered
C32_RejectedWitness ==
    /\ Len(requests) = 2
    /\ requests[1].view = "record_answer" /\ requests[1].status = 400
    /\ requests[1].body.valid
    /\ requests[1].id = 1 /\ requests[1].body.player_id = 2
    /\ requests[2].view = "record_answer" /\ requests[2].status = 400
    /\ requests[2].id = 1 /\ requests[2].body.player_id = 1
    /\ requests[2].body.question_id = 2
    /\ Cardinality(Live) = 2
    /\ answers = {} /\ recorded = <<>>
    /\ \A c \in Channels : queue[c] = <<>> /\ sock[c] = <<>>

\* ------------------------------------------------------------------ C40
\* rows without their keys
RowFields(table) ==
    {[player |-> a.player, question |-> a.question,
      is_correct |-> a.is_correct, points |-> a.points] : a \in table}

\* what the two calls leave and return when call a runs to its end on the
\* rows stored before them and call b runs after it
Serial(a, b) ==
    LET ca == txns.call[a]
        cb == txns.call[b]
        t1 == StoreAnswer(txns.stored, answer_pk + 1, ca.player_id,
                          ca.question_id, ca.is_correct, ca.points)
        t2 == StoreAnswer(t1, answer_pk + 2, cb.player_id,
                          cb.question_id, cb.is_correct, cb.points)
    IN [rows |-> RowFields(t2),
        first |-> [player_id |-> ca.player_id, score |-> Score(t1, ca.player_id),
                   version |-> txns.version + 1],
        second |-> [player_id |-> cb.player_id, score |-> Score(t2, cb.player_id),
                    version |-> txns.version + 2]]

BothEnded == \A t \in Transactions : txns.call[t].pc \in {"returned", "raised"}

SerialisedAs(a, b) ==
    /\ RowFields(answers) = Serial(a, b).rows
    /\ txns.call[a].result = <<Serial(a, b).first>>
    /\ txns.call[b].result = <<Serial(a, b).second>>

\* C40: when two calls for one player and question that ran at the same
\* time have both ended, neither has raised, and the stored rows, the
\* scores and the versions returned are those of the two calls run one
\* after the other in some order.
C40_ConcurrentCallsSerialisable ==
    BothEnded =>
        /\ \A t \in Transactions : txns.call[t].pc = "returned"
        /\ \E a \in Transactions : \E b \in OtherCalls(a) : SerialisedAs(a, b)

\* the part of it that does not hold even when no call raises
C40_ReturnedCallsSerialisable ==
    (\A t \in Transactions : txns.call[t].pc = "returned") =>
        \E a \in Transactions : \E b \in OtherCalls(a) : SerialisedAs(a, b)

\* ------------------------------------------------------------------ C34
\* C34 as stated: whatever connects fail after a loss of the connection,
\* listen_for_messages has not ended: it is receiving, handling a message,
\* or sleeping and connecting again.
C34_ListenLoopNeverEnds ==
    listen_pc \in {"new", "listening", "clearing", "down", "error"}

\* ------------------------------------------------------------------ C35
\* C35: selected goes from a channel to none only in the client's handling
\* of a toggle_buzzers message with enabled true, which has set enabled,
\* sets selected to none and sends buzzer_pressed with a null buzzerId
\* (unless that send raises, which counts as a loss of the connection);
\* the handling of toggle_buzzers with enabled false, of
\* buzzer_set_log_level, of a loss of the connection or an error, and a
\* reconnect, leave selected as it is.
C35_OnlyToggleOnClears ==
    /\ [](listen_pc = "clearing" => enabled)
    /\ [][/\ (selected # NoChannel /\ selected' = NoChannel)
                => listen_pc = "clearing"
          /\ listen_pc = "clearing" /\ listen_pc' # listen_pc =>
                /\ selected' = NoChannel
                /\ \/ sent' = Append(sent, NoChannel) /\ listen_pc' = "listening"
                   \/ sent' = sent /\ losses' = losses + 1 /\ listen_pc' = "down"
          /\ toggles' # toggles =>
                /\ selected' = selected
                /\ sent' = sent
                /\ listen_pc' = IF enabled' THEN "clearing" ELSE "listening"
          /\ (listen_pc # "clearing"
                /\ (log_level' # log_level \/ losses' # losses
                       \/ listen_pc' # listen_pc))
                => selected' = selected /\ sent' = sent]_vars

\* a channel was latched and reported, the log level was set, the
\* connection was lost and made again, all with the channel still
\* selected, and then toggle_buzzers with enabled true cleared it
C35_Witness ==
    /\ Len(latched) = 1
    /\ sent = <<NoChannel, latched[1], NoChannel>>
    /\ selected = NoChannel
    /\ cleared = 2
    /\ log_level = "DEBUG"
    /\ losses = 1
    /\ listen_pc = "listening"

\* ------------------------------------------------------------------ C36
\* C36: the step in which listen_for_messages catches a closed connection
\* or an error leaves enabled false; enabled is false while the client
\* sleeps and connects again and after the listener has ended; and enabled
\* goes from false to true only in the handling of a toggle_buzzers message
\* with enabled true.
C36_DisarmedWhenDown ==
    /\ [](listen_pc \in {"down", "error", "ended"} => ~enabled)
    /\ [][/\ losses' # losses => ~enabled'
          /\ (~enabled /\ enabled')
                => (toggles' = toggles + 1 /\ listen_pc = "listening"
                        /\ listen_pc' = "clearing")]_vars

\* the buzzers were armed and a channel latched, the connection was lost
\* and made again, and the buzzers are still disarmed
C36_Witness ==
    /\ losses = 1
    /\ listen_pc = "listening"
    /\ toggles = 1
    /\ cleared = 1
    /\ Len(latched) = 1
    /\ ~enabled

\* the same, and a later toggle_buzzers armed the buzzers again
C36_RearmedWitness ==
    /\ losses = 1
    /\ listen_pc = "listening"
    /\ toggles = 2
    /\ cleared = 2
    /\ enabled

\* ------------------------------------------------------------------ C39
\* C39 as stated: in the buzzer_pressed messages sent, no two messages with
\* a non-null buzzerId follow each other, and a message with a non-null
\* buzzerId is sent in a state where selected is that buzzerId.
C39_PressesSeparatedAndCurrent ==
    /\ [](\A i \in DOMAIN sent :
            (i < Len(sent) /\ sent[i] # NoChannel) => sent[i + 1] = NoChannel)
    /\ [][(sent' # sent /\ sent'[Len(sent')] # NoChannel)
             => selected = sent'[Len(sent')]]_vars

\* the first half of it alone
C39_PressesSeparated ==
    \A i \in DOMAIN sent :
        (i < Len(sent) /\ sent[i] # NoChannel) => sent[i + 1] = NoChannel

\* ------------------------------------------------------------------ C33
\* C33 as stated: once stop() has been called on a client whose run() is
\* under way, run() eventually returns (or raises), wherever the client
\* was: connecting, in a hook, connected, or sleeping.
C33_StopReturns ==
    (~running /\ pc \notin {"created", "returned", "raised"})
        ~> (pc \in {"returned", "raised"})

\* the part of it that holds: stop() during the backoff sleep
C33_StopWhileSleepingReturns ==
    (~running /\ pc = "sleeping") ~> (pc \in {"returned", "raised"})

\* ------------------------------------------------------------------ C38
\* C38 as stated: teardown() has been called at most as often as setup().
C38_TeardownOnlyAfterSetup ==
    Count({"teardown"}) <= Count({"setup"})

\* ------------------------------------------------------------------ C37
\* C37 as stated: every frame a connection is sent was relayed by a
\* connection of the same room, whatever the recipient selector of the
\* message.
C37_NoCrossRoomDelivery ==
    \A c \in Channels : \A i \in DOMAIN sock[c] :
        sock[c][i].id.c \in Channels =>
            conn[sock[c][i].id.c].room_group_name = conn[c].room_group_name
====
